---- MODULE Spec2Model ----
(***************************************************************************)
(* The ledger of the expense tracker: the users, accounts, categories,      *)
(* transactions and expenses tables, the service operations that change    *)
(* them, and the balance and statistics queries computed over them.        *)
(*                                                                         *)
(* Money is counted in hundredths (a decimal(10,2) column holds a whole    *)
(* number of hundredths).  A calendar date is a day number; a JavaScript   *)
(* Date is a number of milliseconds, as `new Date('YYYY-MM-DD')` yields    *)
(* midnight UTC of that day.  A nullable column or an optional argument is *)
(* the empty tuple when absent and a one-element tuple when present.       *)
(***************************************************************************)
EXTENDS Integers, Sequences, FiniteSets, TLC

\* ------------------------------------------------------------------ bounds

MaxAccounts == 2
MaxTransactions == 2
MaxCategories == 1
MaxDay == 3
MaxExpenses == 2
MaxTokens == 3

Users == {1, 2}
Days == 1..MaxDay
AccountIds == 1..MaxAccounts
TransactionIds == 1..MaxTransactions
CategoryIds == 1..MaxCategories
ExpenseIds == 1..MaxExpenses

\* ------------------------------------------------------------------ values

Null == << >>
Some(v) == << v >>
IsNull(x) == Len(x) = 0
Val(x) == x[1]

\* Milliseconds in a day: Date.getTime() of a date-only ISO string.
MsPerDay == 86400000

CREDIT == "credit"
DEBIT == "debit"

\* Object.assign(target, dto): the fields the dto carries replace the target's.
ObjectAssign(target, dto) ==
    [f \in DOMAIN target |-> IF f \in DOMAIN dto THEN dto[f] ELSE target[f]]

Has(dto, f) == f \in DOMAIN dto

RECURSIVE SumAmount(_)
\* SUM(transaction.amount) over a set of rows (0 for no rows, as COALESCE gives).
SumAmount(rows) ==
    IF rows = {} THEN 0
    ELSE LET r == CHOOSE x \in rows : TRUE
         IN r.amount + SumAmount(rows \ {r})

\* ------------------------------------------------------------------ state

VARIABLES users, accounts, transactions, categories, expenses, calls, client

vars == << users, accounts, transactions, categories, expenses, calls, client >>

\* A username: a base string followed by the decimal digits of a counter
\* (none when the counter is 0), as `${username}${counter}` builds it.
Username(base, counter) == << base, counter >>

\* The users row of a user who signed up earlier.
ExistingUser(id) ==
    [id |-> id,
     email |-> IF id = 1 THEN "ann@x.io" ELSE "bob@x.io",
     username |-> IF id = 1 THEN Username("ann", 0) ELSE Username("bob", 0),
     isDeleted |-> FALSE,
     isActive |-> TRUE,
     createdAt |-> id]

\* The calls that are between two of their awaits: a getBalance between its
\* lookup of the account and its answer, and an accounts remove between its
\* checks and its save; and the last logout request with its answer.
IdleBalance ==
    [pc |-> "idle", account |-> Null, totalCredit |-> 0,
     atCredit |-> Null, atDebit |-> Null, seen |-> {}, answer |-> Null]
IdleRemove == [pc |-> "idle", account |-> Null]

\* No POST /auth/logout has been answered yet.
NoLogout == [pc |-> "none", request |-> Null, response |-> Null]

NoCalls == [balance |-> IdleBalance, remove |-> IdleRemove, logout |-> NoLogout]

\* No request of the client's axios instance is on its way.
NoRequest ==
    [pc |-> "none", kind |-> "none", retry |-> FALSE, sends |-> 0, refreshes |-> 0,
     authorization |-> Null, body |-> Null, error |-> Null]

\* The mobile client before anybody signed in: nothing in AsyncStorage, no
\* token pair issued to it, no request on its way.
SignedOut ==
    [storage |-> [accessToken |-> Null, refreshToken |-> Null, user |-> Null],
     issued |-> 0,
     request |-> NoRequest]

Init ==
    /\ users = {ExistingUser(u) : u \in Users}
    /\ expenses = {}
    /\ accounts = {}
    /\ transactions = {}
    /\ categories = {}
    /\ calls = NoCalls
    /\ client = SignedOut

NextAccountId == Cardinality(accounts) + 1
NextUserId == Cardinality(users) + 1

\* The instant of a request, as @CreateDateColumn stamps the rows it inserts:
\* later than every row stored before, the same for the rows of one request.
Clock == Cardinality(users) + Cardinality(accounts) + 1
NextTransactionId == Cardinality(transactions) + 1

\* --------------------------------------------------- dates as the code sees them

\* The values a date field of an entity or of a request body takes in JavaScript:
\* null, a string (an ISO date or not), or a Date object (a time, or NaN).
JsNull == [kind |-> "null", ok |-> FALSE, n |-> 0]
JsString(day) == [kind |-> "string", ok |-> TRUE, n |-> day]
JsBadString == [kind |-> "string", ok |-> FALSE, n |-> 0]
JsDate(time) == [kind |-> "Date", ok |-> TRUE, n |-> time]
JsInvalidDate == [kind |-> "Date", ok |-> FALSE, n |-> 0]

\* if (value): null is falsy, a non-empty string and every object are truthy.
Truthy(v) == v.kind # "null"

\* new Date(string): midnight UTC of an ISO date, an Invalid Date otherwise.
NewDate(v) ==
    IF v.kind = "Date" THEN v
    ELSE IF v.kind = "string" /\ v.ok THEN JsDate(v.n * MsPerDay)
    ELSE JsInvalidDate

\* isNaN(date.getTime())
IsNaNTime(d) == ~d.ok

\* date.toISOString().split('T')[0]: the UTC calendar day of a valid Date.
ToISODay(d) == d.n \div MsPerDay

\* What a `date` column holds after save(): the day of the value written.
ToDateColumn(v) ==
    IF v.kind = "null" THEN Null
    ELSE IF v.kind = "string" THEN Some(v.n)
    ELSE Some(ToISODay(v))

\* What a `date` column hydrates to: null, or the ISO string of the day.
FromDateColumn(c) == IF IsNull(c) THEN JsNull ELSE JsString(Val(c))

\* ------------------------------------------------------------------ accounts

CASH == "cash"
BANK == "bank"

\* String.prototype.toLowerCase on the account names the model uses.
ToLowerCase(name) ==
    CASE name = "Cash" -> "cash"
      [] name = "CASH" -> "cash"
      [] name = "Savings" -> "savings"
      [] name = "Wallet" -> "wallet"
      [] OTHER -> name

\* AccountsFindOne with the isDeleted condition lost.
AccountsFindOneWithDeleted(accts, id, userId) ==
    {a \in accts : a.id = id /\ a.userId = userId}

\* accountsRepository.findOne({ where: { id, userId, isDeleted: false } })
AccountsFindOne(accts, id, userId) ==
    {a \in accts : a.id = id /\ a.userId = userId /\ ~a.isDeleted}

\* accountsRepository.find({ where: { userId, isDeleted: false } })
AccountsFind(accts, userId) ==
    {a \in accts : a.userId = userId /\ ~a.isDeleted}

\* The rows of a set in ascending createdAt order (order: { createdAt: 'ASC' }).
RECURSIVE OrderByCreatedAt(_)
OrderByCreatedAt(rows) ==
    IF rows = {} THEN << >>
    ELSE LET first == CHOOSE r \in rows : \A o \in rows : r.createdAt <= o.createdAt
         IN << first >> \o OrderByCreatedAt(rows \ {first})

\* The row AccountsService.create saves.
AccountsCreated(userId, dto, now) ==
    LET written == IF Has(dto, "openingBalanceDate") /\ Truthy(dto.openingBalanceDate)
                   THEN NewDate(dto.openingBalanceDate)
                   ELSE JsDate(now)
    IN [id |-> NextAccountId,
        userId |-> userId,
        name |-> dto.name,
        type |-> dto.type,
        openingBalance |-> IF Has(dto, "openingBalance") THEN dto.openingBalance ELSE 0,
        openingBalanceDate |-> ToDateColumn(written),
        isDeleted |-> FALSE,
        createdAt |-> Clock]

\* AccountsService.create
AccountsCreate(userId, dto, now) ==
    /\ Cardinality(accounts) < MaxAccounts
    /\ accounts' = accounts \cup {AccountsCreated(userId, dto, now)}
    /\ UNCHANGED << users, transactions, categories, expenses, calls, client >>

\* The entity AccountsService.update saves: the dto's own fields win, the Date
\* built from dto.openingBalanceDate included (Object.assign runs after it).
AccountsUpdated(account, dto) ==
    LET dated == IF Has(dto, "openingBalanceDate") /\ Truthy(dto.openingBalanceDate)
                 THEN NewDate(dto.openingBalanceDate)
                 ELSE FromDateColumn(account.openingBalanceDate)
        entity == ObjectAssign([account EXCEPT !.openingBalanceDate = dated], dto)
    IN [entity EXCEPT !.openingBalanceDate = ToDateColumn(entity.openingBalanceDate)]

\* AccountsService.update
AccountsUpdate(id, userId, dto) ==
    /\ AccountsFindOne(accounts, id, userId) # {}
    /\ LET account == CHOOSE a \in AccountsFindOne(accounts, id, userId) : TRUE
       IN accounts' = (accounts \ {account}) \cup {AccountsUpdated(account, dto)}
    /\ UNCHANGED << users, transactions, categories, expenses, calls, client >>

\* AccountsRemoveOutcome comparing the name with 'Cash' as it is written.
AccountsRemoveOutcomeCaseSensitive(id, userId) ==
    LET found == AccountsFindOne(accounts, id, userId)
        account == CHOOSE a \in found : TRUE
        allAccounts == OrderByCreatedAt(AccountsFind(accounts, userId))
        transactionCount ==
            Cardinality({t \in transactions : t.accountId = id /\ ~t.isDeleted})
    IN IF found = {} THEN [status |-> "NotFound", count |-> 0]
       ELSE IF /\ account.name = "Cash"
               /\ account.type = CASH
               /\ Len(allAccounts) > 0
               /\ allAccounts[1].id = account.id
            THEN [status |-> "Forbidden", count |-> 0]
       ELSE IF transactionCount > 0
            THEN [status |-> "BadRequest", count |-> transactionCount]
       ELSE [status |-> "ok", count |-> 0]

\* AccountsRemoveOutcome counting the deleted transactions too.
AccountsRemoveOutcomeCountingDeleted(id, userId) ==
    LET found == AccountsFindOne(accounts, id, userId)
        account == CHOOSE a \in found : TRUE
        allAccounts == OrderByCreatedAt(AccountsFind(accounts, userId))
        transactionCount == Cardinality({t \in transactions : t.accountId = id})
    IN IF found = {} THEN [status |-> "NotFound", count |-> 0]
       ELSE IF /\ ToLowerCase(account.name) = "cash"
               /\ account.type = CASH
               /\ Len(allAccounts) > 0
               /\ allAccounts[1].id = account.id
            THEN [status |-> "Forbidden", count |-> 0]
       ELSE IF transactionCount > 0
            THEN [status |-> "BadRequest", count |-> transactionCount]
       ELSE [status |-> "ok", count |-> 0]

\* AccountsRemoveOutcome with the transaction count looked at first.
AccountsRemoveOutcomeCountFirst(id, userId) ==
    LET found == AccountsFindOne(accounts, id, userId)
        account == CHOOSE a \in found : TRUE
        allAccounts == OrderByCreatedAt(AccountsFind(accounts, userId))
        transactionCount ==
            Cardinality({t \in transactions : t.accountId = id /\ ~t.isDeleted})
    IN IF found = {} THEN [status |-> "NotFound", count |-> 0]
       ELSE IF transactionCount > 0
            THEN [status |-> "BadRequest", count |-> transactionCount]
       ELSE IF /\ ToLowerCase(account.name) = "cash"
               /\ account.type = CASH
               /\ Len(allAccounts) > 0
               /\ allAccounts[1].id = account.id
            THEN [status |-> "Forbidden", count |-> 0]
       ELSE [status |-> "ok", count |-> 0]

\* AccountsService.remove: what the call answers.
AccountsRemoveOutcome(id, userId) ==
    LET found == AccountsFindOne(accounts, id, userId)
        account == CHOOSE a \in found : TRUE
        allAccounts == OrderByCreatedAt(AccountsFind(accounts, userId))
        transactionCount ==
            Cardinality({t \in transactions : t.accountId = id /\ ~t.isDeleted})
    IN IF found = {} THEN [status |-> "NotFound", count |-> 0]
       ELSE IF /\ ToLowerCase(account.name) = "cash"
               /\ account.type = CASH
               /\ Len(allAccounts) > 0
               /\ allAccounts[1].id = account.id
            THEN [status |-> "Forbidden", count |-> 0]
       ELSE IF transactionCount > 0
            THEN [status |-> "BadRequest", count |-> transactionCount]
       ELSE [status |-> "ok", count |-> 0]

\* AccountsRemove taking the row out of the table.
AccountsRemoveHard(id, userId) ==
    /\ AccountsRemoveOutcome(id, userId).status = "ok"
    /\ accounts' = accounts \ AccountsFindOne(accounts, id, userId)
    /\ UNCHANGED << users, transactions, categories, expenses, calls, client >>

\* AccountsService.remove
AccountsRemove(id, userId) ==
    /\ AccountsRemoveOutcome(id, userId).status = "ok"
    /\ LET account == CHOOSE a \in AccountsFindOne(accounts, id, userId) : TRUE
       IN accounts' = (accounts \ {account}) \cup {[account EXCEPT !.isDeleted = TRUE]}
    /\ UNCHANGED << users, transactions, categories, expenses, calls, client >>

\* ------------------------------------------------------ the sums of getBalance

\* The opening balance date getBalance works with: the entity's Date, the Date
\* parsed from the entity's string, or none.
OpeningBalanceDateOf(raw) ==
    IF Truthy(raw) /\ raw.kind = "Date" THEN raw
    ELSE IF Truthy(raw) /\ raw.kind = "string" THEN NewDate(raw)
    ELSE JsNull

\* openingBalanceDate && !isNaN(openingBalanceDate.getTime())
HasValidDate(openingBalanceDate) ==
    Truthy(openingBalanceDate) /\ ~IsNaNTime(openingBalanceDate)

\* BalanceBase with the isDeleted condition lost.
BalanceBaseWithDeleted(rows, accountId) == {t \in rows : t.accountId = accountId}

\* The query builder's base: the account's rows that are not deleted.
BalanceBase(rows, accountId) ==
    {t \in rows : t.accountId = accountId /\ ~t.isDeleted}

\* BalanceDated with > in place of >=.
BalanceDatedStrict(rows, openingBalanceDate) ==
    IF HasValidDate(openingBalanceDate)
    THEN {t \in rows : t.date > ToISODay(openingBalanceDate)}
    ELSE rows

\* The query builder once the opening balance date is looked at.
BalanceDated(rows, openingBalanceDate) ==
    IF HasValidDate(openingBalanceDate)
    THEN {t \in rows : t.date >= ToISODay(openingBalanceDate)}
    ELSE rows

\* BalanceTotal with the clone's transactionType condition lost.
BalanceTotalAnyType(rows, type) == SumAmount(rows)

\* A clone of the query builder narrowed to one transaction type, summed.
BalanceTotal(rows, type) ==
    SumAmount({t \in rows : t.transactionType = type})

\* The sum one clone of getBalance's query builder selects for an account
\* entity, over the ledger as it is stored when the query runs.
BalanceQuery(account, rows, type) ==
    BalanceTotal(BalanceDated(BalanceBase(rows, account.id),
                              OpeningBalanceDateOf(FromDateColumn(account.openingBalanceDate))),
                 type)

\* The two sums a ledger holds for an account entity.
SumsOf(account, rows) ==
    [totalCredit |-> BalanceQuery(account, rows, CREDIT),
     totalDebit |-> BalanceQuery(account, rows, DEBIT)]

\* What a running getBalance has overlapped with, once the ledger becomes
\* `ledger`: the sums of every ledger that existed during the call are kept,
\* for stating which answers a single ledger gives.
Overlapping(inFlight, ledger) ==
    IF inFlight.balance.pc \in {"credit", "debit"}
    THEN [inFlight EXCEPT
             !.balance.seen = @ \cup {SumsOf(Val(inFlight.balance.account), ledger)}]
    ELSE inFlight

\* ------------------------------------------------------------------ categories

\* The row CategoriesService.create saves under a given id.
CategoriesCreated(id, userId, dto) ==
    [id |-> id,
     userId |-> userId,
     name |-> dto.name,
     icon |-> IF Has(dto, "icon") THEN Some(dto.icon) ELSE Null,
     color |-> IF Has(dto, "color") THEN dto.color ELSE "#6366f1"]

\* CategoriesService.create
CategoriesCreate(userId, dto) ==
    /\ Cardinality(categories) < MaxCategories
    /\ categories' = categories \cup
           {CategoriesCreated(Cardinality(categories) + 1, userId, dto)}
    /\ UNCHANGED << users, accounts, transactions, expenses, calls, client >>

\* OnDeleteSetNull as ON DELETE CASCADE: the rows that name the category go
\* with it.
OnDeleteCascade(rows, categoryId) ==
    {r \in rows : r.categoryId # Some(categoryId)}

\* @ManyToOne(() => Category, ..., { onDelete: 'SET NULL' }) of Transaction and
\* of Expense: the rows of a table after the category row is deleted.
OnDeleteSetNull(rows, categoryId) ==
    {IF r.categoryId = Some(categoryId) THEN [r EXCEPT !.categoryId = Null] ELSE r :
        r \in rows}

\* categoriesRepository.findOne({ where: { id, userId } })
CategoriesFindOne(id, userId) ==
    {c \in categories : c.id = id /\ c.userId = userId}

\* CategoriesService.remove: the row is deleted, not flagged.
CategoriesRemove(id, userId) ==
    /\ CategoriesFindOne(id, userId) # {}
    /\ categories' = categories \ CategoriesFindOne(id, userId)
    /\ transactions' = OnDeleteSetNull(transactions, id)
    /\ expenses' = OnDeleteSetNull(expenses, id)
    /\ calls' = Overlapping(calls, transactions')
    /\ UNCHANGED << users, accounts, client >>

\* ------------------------------------------------------------------ users

\* email.split('@')[0].toLowerCase().replace(/[^a-z0-9]/g, '') on the emails
\* the model uses.
EmailPrefix(email) ==
    CASE email = "ann@x.io" -> "ann"
      [] email = "A.nn@y.io" -> "ann"
      [] email = "bob@x.io" -> "bob"
      [] OTHER -> email

\* usersRepository.findOne({ where: { email, isDeleted: false, isActive: true } })
FindByEmail(email) ==
    {u \in users : u.email = email /\ ~u.isDeleted /\ u.isActive}

\* usersRepository.findOne({ where: { username, isDeleted: false, isActive: true } })
FindByUsername(username) ==
    {u \in users : u.username = username /\ ~u.isDeleted /\ u.isActive}

RECURSIVE UniqueUsername(_, _)
\* The loop that appends a counter to the email prefix until no user has the
\* name: the name tried before `counter` is appended, then the next.
UniqueUsername(base, counter) ==
    LET tried == Username(base, counter - 1)
    IN IF FindByUsername(tried) # {} THEN UniqueUsername(base, counter + 1) ELSE tried

\* DefaultCategories without its last entry.
DefaultCategoriesShort ==
    << [name |-> "Food & Dining", icon |-> "burger", color |-> "#ef4444"],
       [name |-> "Transportation", icon |-> "car", color |-> "#3b82f6"],
       [name |-> "Shopping", icon |-> "bags", color |-> "#8b5cf6"],
       [name |-> "Bills & Utilities", icon |-> "card", color |-> "#f59e0b"],
       [name |-> "Entertainment", icon |-> "clapper", color |-> "#ec4899"],
       [name |-> "Healthcare", icon |-> "hospital", color |-> "#10b981"],
       [name |-> "Education", icon |-> "books", color |-> "#6366f1"],
       [name |-> "Travel", icon |-> "airplane", color |-> "#06b6d4"],
       [name |-> "Personal Care", icon |-> "person", color |-> "#f97316"] >>

\* defaultCategories of createDefaultCategories (an icon is named by what the
\* emoji shows).
DefaultCategories ==
    << [name |-> "Food & Dining", icon |-> "burger", color |-> "#ef4444"],
       [name |-> "Transportation", icon |-> "car", color |-> "#3b82f6"],
       [name |-> "Shopping", icon |-> "bags", color |-> "#8b5cf6"],
       [name |-> "Bills & Utilities", icon |-> "card", color |-> "#f59e0b"],
       [name |-> "Entertainment", icon |-> "clapper", color |-> "#ec4899"],
       [name |-> "Healthcare", icon |-> "hospital", color |-> "#10b981"],
       [name |-> "Education", icon |-> "books", color |-> "#6366f1"],
       [name |-> "Travel", icon |-> "airplane", color |-> "#06b6d4"],
       [name |-> "Personal Care", icon |-> "person", color |-> "#f97316"],
       [name |-> "Gifts & Donations", icon |-> "gift", color |-> "#84cc16"] >>

\* The default account dto of UsersService.create at the instant `now`.
DefaultAccountDto(now) ==
    [name |-> "Cash", type |-> CASH, openingBalance |-> 0,
     openingBalanceDate |-> JsString(ToISODay(JsDate(now)))]

\* The rows createDefaultCategories stores when the creates of the entries in
\* `failing` reject: Promise.all lets the other creates run to their end.
DefaultCategoriesCreated(userId, failing) ==
    LET stored == {k \in 1..Len(DefaultCategories) : k \notin failing}
        rank(k) == Cardinality({j \in stored : j <= k})
    IN {CategoriesCreated(Cardinality(categories) + rank(k), userId,
                          DefaultCategories[k]) : k \in stored}

\* UsersService.create: what the call answers.
UsersCreateOutcome(dto) ==
    IF FindByEmail(dto.email) # {} THEN "Conflict"
    ELSE IF Has(dto, "username") /\ FindByUsername(dto.username) # {} THEN "Conflict"
    ELSE "ok"

\* UsersService.create, where `accountFails` tells whether the create of the
\* default account rejects and `failing` which category creates reject.
UsersCreate(dto, now, accountFails, failing) ==
    /\ Cardinality(users) < Cardinality(Users)
    /\ Cardinality(accounts) < MaxAccounts
    /\ UsersCreateOutcome(dto) = "ok"
    /\ LET username == IF Has(dto, "username") THEN dto.username
                       ELSE UniqueUsername(EmailPrefix(dto.email), 1)
           savedUser == [id |-> NextUserId,
                         email |-> dto.email,
                         username |-> username,
                         isDeleted |-> FALSE,
                         isActive |-> TRUE,
                         createdAt |-> Clock]
       IN /\ users' = users \cup {savedUser}
          /\ accounts' = IF accountFails THEN accounts
                         ELSE accounts \cup
                                 {AccountsCreated(savedUser.id, DefaultAccountDto(now), now)}
          /\ categories' = categories \cup DefaultCategoriesCreated(savedUser.id, failing)
    /\ UNCHANGED << transactions, expenses, calls, client >>

\* UsersService.create answering as if a failed seeding step were rethrown.
UsersCreateAnswerRethrown(dto, accountFails, failing) ==
    IF UsersCreateOutcome(dto) # "ok" THEN [status |-> UsersCreateOutcome(dto)]
    ELSE IF accountFails \/ failing # {} THEN [status |-> "InternalServerError"]
    ELSE [status |-> "ok",
          user |-> [id |-> NextUserId, email |-> dto.email]]

\* UsersService.create: what the call answers after the user was saved, where
\* `accountFails` and `failing` are as in UsersCreate. The rejection of the
\* account create is caught and logged, that of a category create is caught
\* inside createDefaultCategories, and toSafeUser(savedUser) is returned.
UsersCreateAnswer(dto, accountFails, failing) ==
    IF UsersCreateOutcome(dto) # "ok" THEN [status |-> UsersCreateOutcome(dto)]
    ELSE [status |-> "ok",
          user |-> [id |-> NextUserId, email |-> dto.email]]

\* ------------------------------------------------------------------ transactions

\* The foreign keys of the transactions table: the account row exists, and so
\* does the category row when one is named.
ForeignKeysHold(row) ==
    /\ \E a \in accounts : a.id = row.accountId
    /\ IF IsNull(row.categoryId) THEN TRUE
       ELSE \E c \in categories : c.id = Val(row.categoryId)

\* TransactionsService.create
TransactionsCreate(userId, dto) ==
    /\ Cardinality(transactions) < MaxTransactions
    /\ LET row == [id |-> NextTransactionId,
                   userId |-> userId,
                   accountId |-> dto.accountId,
                   categoryId |-> IF Has(dto, "categoryId")
                                  THEN Some(dto.categoryId) ELSE Null,
                   amount |-> dto.amount,
                   date |-> ToISODay(NewDate(dto.date)),
                   transactionType |-> dto.transactionType,
                   paymentMethod |-> IF Has(dto, "paymentMethod")
                                     THEN dto.paymentMethod ELSE "Cash",
                   isDeleted |-> FALSE]
       IN /\ ForeignKeysHold(row)
          /\ transactions' = transactions \cup {row}
    /\ calls' = Overlapping(calls, transactions')
    /\ UNCHANGED << users, accounts, categories, expenses, client >>

\* TransactionsFindOne with the isDeleted condition lost.
TransactionsFindOneWithDeleted(id, userId) ==
    {t \in transactions : t.id = id /\ t.userId = userId}

\* transactionsRepository.findOne({ where: { id, userId, isDeleted: false } })
TransactionsFindOne(id, userId) ==
    {t \in transactions : t.id = id /\ t.userId = userId /\ ~t.isDeleted}

\* The entity TransactionsService.update saves: dto.date becomes a Date and
\* leaves the dto, the other fields of the dto are assigned as they are.
TransactionsUpdated(transaction, dto) ==
    LET dated == IF Has(dto, "date") /\ Truthy(dto.date)
                 THEN [transaction EXCEPT !.date = ToISODay(NewDate(dto.date))]
                 ELSE transaction
        rest == [f \in DOMAIN dto \ {"date", "categoryId"} |-> dto[f]]
        assigned == ObjectAssign(dated, rest)
    IN IF Has(dto, "categoryId")
       THEN [assigned EXCEPT !.categoryId = Some(dto.categoryId)]
       ELSE assigned

\* TransactionsService.update
TransactionsUpdate(id, userId, dto) ==
    /\ TransactionsFindOne(id, userId) # {}
    /\ LET transaction == CHOOSE t \in TransactionsFindOne(id, userId) : TRUE
           saved == TransactionsUpdated(transaction, dto)
       IN /\ ForeignKeysHold(saved)
          /\ transactions' = (transactions \ {transaction}) \cup {saved}
    /\ calls' = Overlapping(calls, transactions')
    /\ UNCHANGED << users, accounts, categories, expenses, client >>

\* The row TransactionsService.remove saves.
TransactionsRemoved(transaction) == [transaction EXCEPT !.isDeleted = TRUE]

\* TransactionsService.remove
TransactionsRemove(id, userId) ==
    /\ TransactionsFindOne(id, userId) # {}
    /\ LET transaction == CHOOSE t \in TransactionsFindOne(id, userId) : TRUE
       IN transactions' = (transactions \ {transaction}) \cup
                              {TransactionsRemoved(transaction)}
    /\ calls' = Overlapping(calls, transactions')
    /\ UNCHANGED << users, accounts, categories, expenses, client >>

\* @Min(0.01) in hundredths.
MinAmount == 1

\* IsValidAmount with @Min(0).
IsValidAmountMinZero(amount) == amount >= 0

\* @IsNotEmpty() @IsNumber() @Min(0.01) amount
IsValidAmount(amount) == amount >= MinAmount

\* The validation of a CreateTransactionDto body by the global ValidationPipe.
ValidCreateTransactionDto(dto) ==
    /\ Has(dto, "amount") /\ IsValidAmount(dto.amount)
    /\ Has(dto, "date") /\ dto.date.kind = "string" /\ dto.date.ok
    /\ Has(dto, "transactionType") /\ dto.transactionType \in {CREDIT, DEBIT}
    /\ Has(dto, "accountId")

\* The validation of an UpdateTransactionDto body: every field is optional, a
\* field that is present is validated as in a CreateTransactionDto.
ValidUpdateTransactionDto(dto) ==
    /\ Has(dto, "amount") => IsValidAmount(dto.amount)
    /\ Has(dto, "date") => (dto.date.kind = "string" /\ dto.date.ok)
    /\ Has(dto, "transactionType") => dto.transactionType \in {CREDIT, DEBIT}

\* POST /transactions: the body is validated, then TransactionsService.create.
TransactionsPost(userId, dto) ==
    /\ ValidCreateTransactionDto(dto)
    /\ TransactionsCreate(userId, dto)

\* PATCH /transactions/:id: the body is validated, then TransactionsService.update.
TransactionsPatch(id, userId, dto) ==
    /\ ValidUpdateTransactionDto(dto)
    /\ TransactionsUpdate(id, userId, dto)

\* ------------------------------------------------------------------ getBalance

\* getBalance from the account entity on: the sums and the returned object.
BalanceOf(account, raw, rows) ==
    LET openingBalance == account.openingBalance
        openingBalanceDate == OpeningBalanceDateOf(raw)
        queryBuilder == BalanceDated(BalanceBase(rows, account.id), openingBalanceDate)
        totalCredit == BalanceTotal(queryBuilder, CREDIT)
        totalDebit == BalanceTotal(queryBuilder, DEBIT)
    IN [accountId |-> account.id,
        accountName |-> account.name,
        openingBalance |-> openingBalance,
        openingBalanceDate |-> IF HasValidDate(openingBalanceDate)
                               THEN Some(ToISODay(openingBalanceDate)) ELSE Null,
        totalCredit |-> totalCredit,
        totalDebit |-> totalDebit,
        balance |-> openingBalance + totalCredit - totalDebit]

NotFound == [status |-> "NotFound"]
Ok(body) == [status |-> "ok", body |-> body]

\* TransactionsService.getBalance over given tables.
GetBalanceOn(accts, rows, accountId, userId) ==
    LET found == AccountsFindOne(accts, accountId, userId)
        account == CHOOSE a \in found : TRUE
    IN IF found = {} THEN NotFound
       ELSE Ok(BalanceOf(account, FromDateColumn(account.openingBalanceDate), rows))

\* TransactionsService.getBalance
GetBalance(accountId, userId) ==
    GetBalanceOn(accounts, transactions, accountId, userId)

\* ------------------------------------------------------------------ numbers

\* A JS number (an IEEE 754 double) that is finite: its sign, the bits of its
\* significand from the most significant one, without a leading or a trailing
\* zero, and the power of two its last bit counts. Zero has no bits.
Double(neg, bits, exp) == [neg |-> neg, bits |-> bits, exp |-> exp]

\* The bits a double's significand holds.
Precision == 53

Zero == Double(FALSE, << >>, 0)

\* k zero bits.
Zeros(k) == [i \in 1..k |-> 0]

\* A bit string without its leading zeros.
StripLeading(bits) ==
    LET ones == {i \in 1..Len(bits) : bits[i] = 1}
    IN IF ones = {} THEN << >>
       ELSE SubSeq(bits, CHOOSE i \in ones : \A j \in ones : i <= j, Len(bits))

\* The double of a bit string that has no leading zero and at most Precision
\* bits before its trailing zeros.
Normalize(neg, bits, exp) ==
    LET ones == {i \in 1..Len(bits) : bits[i] = 1}
        last == CHOOSE i \in ones : \A j \in ones : j <= i
    IN IF ones = {} THEN Zero
       ELSE Double(neg, SubSeq(bits, 1, last), exp + Len(bits) - last)

\* A bit string plus one in its last place.
Increment(bits) ==
    LET zeros == {i \in 1..Len(bits) : bits[i] = 0}
        last == CHOOSE i \in zeros : \A j \in zeros : j <= i
    IN IF zeros = {} THEN << 1 >> \o Zeros(Len(bits))
       ELSE SubSeq(bits, 1, last - 1) \o << 1 >> \o Zeros(Len(bits) - last)

\* The double nearest to the value of a bit string that has no leading zero,
\* a tie going to the even significand (the rounding of every JS number
\* operation).
RoundNearestEven(neg, bits, exp) ==
    IF Len(bits) <= Precision THEN Normalize(neg, bits, exp)
    ELSE LET kept == SubSeq(bits, 1, Precision)
             guard == bits[Precision + 1]
             sticky == \E i \in (Precision + 2)..Len(bits) : bits[i] = 1
             up == guard = 1 /\ (sticky \/ kept[Precision] = 1)
         IN Normalize(neg, IF up THEN Increment(kept) ELSE kept,
                      exp + Len(bits) - Precision)

RECURSIVE IntBits(_)
\* The bits of a natural number.
IntBits(q) == IF q = 0 THEN << >> ELSE Append(IntBits(q \div 2), q % 2)

RECURSIVE FractionBits(_, _, _)
\* The bits `done` followed by the next k bits of the binary expansion of
\* r / 100, and what is left of r.
FractionBits(r, k, done) ==
    IF k = 0 THEN [bits |-> done, rem |-> r]
    ELSE LET bit == IF 2 * r >= 100 THEN 1 ELSE 0
         IN FractionBits(2 * r - 100 * bit, k - 1, Append(done, bit))

\* parseFloat of the decimal string of n hundredths: the double nearest to
\* n / 100. Sixty-four bits of the fraction reach past the rounding bit of
\* every amount of a hundredth or more; a last bit stands for what follows.
ParseFloat(n) ==
    LET m == IF n < 0 THEN 0 - n ELSE n
        fraction == FractionBits(m % 100, 64, << >>)
        more == IF fraction.rem # 0 THEN << 1 >> ELSE << >>
        bits == IntBits(m \div 100) \o fraction.bits \o more
    IN RoundNearestEven(n < 0, StripLeading(bits), 0 - (64 + Len(more)))

\* Two significands written to the same last place and the same length.
Aligned(a, b) ==
    LET exp == IF a.exp < b.exp THEN a.exp ELSE b.exp
        x == a.bits \o Zeros(a.exp - exp)
        y == b.bits \o Zeros(b.exp - exp)
        len == IF Len(x) < Len(y) THEN Len(y) ELSE Len(x)
    IN [x |-> Zeros(len - Len(x)) \o x, y |-> Zeros(len - Len(y)) \o y, exp |-> exp]

\* The carry into place i of the sum of two aligned bit strings: some lower
\* place holds two ones and every place between holds one.
Carry(x, y, i) ==
    \E j \in (i + 1)..Len(x) :
        /\ x[j] = 1 /\ y[j] = 1
        /\ \A k \in (i + 1)..(j - 1) : x[k] # y[k]

\* The sum of two aligned bit strings, one bit longer than they are.
AddBits(x, y) ==
    [i \in 1..(Len(x) + 1) |->
        IF i = 1 THEN (IF Carry(x, y, 0) THEN 1 ELSE 0)
        ELSE (x[i - 1] + y[i - 1] + (IF Carry(x, y, i - 1) THEN 1 ELSE 0)) % 2]

\* The borrow from place i of the difference of two aligned bit strings.
Borrow(x, y, i) ==
    \E j \in (i + 1)..Len(x) :
        /\ x[j] = 0 /\ y[j] = 1
        /\ \A k \in (i + 1)..(j - 1) : x[k] = y[k]

\* The difference of two aligned bit strings, the first the larger.
SubBits(x, y) ==
    [i \in 1..Len(x) |->
        (2 + x[i] - y[i] - (IF Borrow(x, y, i) THEN 1 ELSE 0)) % 2]

\* x >= y for aligned bit strings.
GeqBits(x, y) ==
    LET differ == {i \in 1..Len(x) : x[i] # y[i]}
    IN differ = {} \/ x[CHOOSE i \in differ : \A j \in differ : i <= j] = 1

\* a + b on JS numbers: the exact sum, rounded to the nearest double.
FloatAdd(a, b) ==
    LET al == Aligned(a, b)
    IN IF a.neg = b.neg
       THEN RoundNearestEven(a.neg, StripLeading(AddBits(al.x, al.y)), al.exp)
       ELSE IF GeqBits(al.x, al.y)
            THEN RoundNearestEven(a.neg, StripLeading(SubBits(al.x, al.y)), al.exp)
            ELSE RoundNearestEven(b.neg, StripLeading(SubBits(al.y, al.x)), al.exp)

\* a - b on JS numbers.
FloatSub(a, b) ==
    FloatAdd(a, IF b = Zero THEN b ELSE [b EXCEPT !.neg = ~b.neg])

\* getBalance from the account entity on, in the numbers the code computes
\* with: each sum comes from the store as a decimal string and is parsed, and
\* the balance is openingBalance + totalCredit - totalDebit on JS numbers.
BalanceNumbers(account, raw, rows) ==
    LET openingBalance == ParseFloat(account.openingBalance)
        queryBuilder == BalanceDated(BalanceBase(rows, account.id),
                                     OpeningBalanceDateOf(raw))
        totalCredit == ParseFloat(BalanceTotal(queryBuilder, CREDIT))
        totalDebit == ParseFloat(BalanceTotal(queryBuilder, DEBIT))
    IN [openingBalance |-> openingBalance,
        totalCredit |-> totalCredit,
        totalDebit |-> totalDebit,
        balance |-> FloatSub(FloatAdd(openingBalance, totalCredit), totalDebit)]

\* TransactionsService.getBalance: the numbers of the answer.
GetBalanceNumbers(accountId, userId) ==
    LET found == AccountsFindOne(accounts, accountId, userId)
        account == CHOOSE a \in found : TRUE
    IN IF found = {} THEN NotFound
       ELSE Ok(BalanceNumbers(account, FromDateColumn(account.openingBalanceDate),
                              transactions))

\* ------------------------------------------------------------- calls in steps

\* getBalance up to its first query: the account is looked up.
GetBalanceLookup(accountId, userId) ==
    /\ calls.balance.pc \in {"idle", "done"}
    /\ AccountsFindOne(accounts, accountId, userId) # {}
    /\ LET account == CHOOSE a \in AccountsFindOne(accounts, accountId, userId) : TRUE
       IN calls' = [calls EXCEPT
                       !.balance = [IdleBalance EXCEPT
                                       !.pc = "credit",
                                       !.account = Some(account),
                                       !.seen = {SumsOf(account, transactions)}]]
    /\ UNCHANGED << users, accounts, transactions, categories, expenses, client >>

\* GetBalanceDebit answering from the ledger the credit query read.
GetBalanceDebitSnapshot ==
    /\ calls.balance.pc = "debit"
    /\ LET account == Val(calls.balance.account)
           totalCredit == calls.balance.totalCredit
           totalDebit == Val(calls.balance.atCredit).totalDebit
       IN calls' = [calls EXCEPT
                       !.balance.pc = "done",
                       !.balance.atDebit = Some(SumsOf(account, transactions)),
                       !.balance.answer =
                           Some([totalCredit |-> totalCredit,
                                 totalDebit |-> totalDebit,
                                 balance |-> account.openingBalance
                                                + totalCredit - totalDebit])]
    /\ UNCHANGED << users, accounts, transactions, categories, expenses, client >>

\* The credit-sum query of getBalance, over the ledger as stored now.
GetBalanceCredit ==
    /\ calls.balance.pc = "credit"
    /\ calls' = [calls EXCEPT
                    !.balance.pc = "debit",
                    !.balance.totalCredit =
                        BalanceQuery(Val(calls.balance.account), transactions, CREDIT),
                    !.balance.atCredit =
                        Some(SumsOf(Val(calls.balance.account), transactions))]
    /\ UNCHANGED << users, accounts, transactions, categories, expenses, client >>

\* The debit-sum query of getBalance, over the ledger as stored now, and the
\* answer.
GetBalanceDebit ==
    /\ calls.balance.pc = "debit"
    /\ LET account == Val(calls.balance.account)
           totalCredit == calls.balance.totalCredit
           totalDebit == BalanceQuery(account, transactions, DEBIT)
       IN calls' = [calls EXCEPT
                       !.balance.pc = "done",
                       !.balance.atDebit = Some(SumsOf(account, transactions)),
                       !.balance.answer =
                           Some([totalCredit |-> totalCredit,
                                 totalDebit |-> totalDebit,
                                 balance |-> account.openingBalance
                                                + totalCredit - totalDebit])]
    /\ UNCHANGED << users, accounts, transactions, categories, expenses, client >>

\* AccountsService.remove up to its save: the account is found and neither
\* rule denies.
AccountsRemoveCheck(id, userId) ==
    /\ calls.remove.pc \in {"idle", "done"}
    /\ AccountsRemoveOutcome(id, userId).status = "ok"
    /\ calls' = [calls EXCEPT
                    !.remove = [pc |-> "save",
                                account |-> Some(CHOOSE a \in AccountsFindOne(accounts, id, userId) :
                                                    TRUE)]]
    /\ UNCHANGED << users, accounts, transactions, categories, expenses, client >>

\* The save of AccountsService.remove: the entity found earlier is stored with
\* its flag set.
AccountsRemoveSave ==
    /\ calls.remove.pc = "save"
    /\ LET account == Val(calls.remove.account)
       IN accounts' = {a \in accounts : a.id # account.id}
                         \cup {[account EXCEPT !.isDeleted = TRUE]}
    /\ calls' = [calls EXCEPT !.remove.pc = "done"]
    /\ UNCHANGED << users, transactions, categories, expenses, client >>

\* ------------------------------------------------------- getAllAccountBalances

\* The orders in which a find() without an order clause may return its rows.
Orderings(rows) ==
    {seq \in [1..Cardinality(rows) -> rows] :
        \A i, j \in 1..Cardinality(rows) : i # j => seq[i] # seq[j]}

\* The orders in which accountsRepository.find returns the user's accounts.
BalancesFindOrders(rows) == Orderings(rows)

\* BalanceFallback answering the last sums instead of the opening balance alone.
BalanceFallbackWithSums(account) ==
    BalanceOf(account, FromDateColumn(account.openingBalanceDate), transactions)

\* The entry that stands in for an account whose getBalance was rejected.
BalanceFallback(account) ==
    LET raw == FromDateColumn(account.openingBalanceDate)
    IN [accountId |-> account.id,
        accountName |-> account.name,
        openingBalance |-> account.openingBalance,
        openingBalanceDate |-> IF ~Truthy(raw) THEN Null
                               ELSE IF raw.kind = "Date" THEN Some(ToISODay(raw))
                               ELSE Some(raw.n),
        totalCredit |-> 0,
        totalDebit |-> 0,
        balance |-> account.openingBalance]

\* The mapping of one settled promise to its entry.
BalancesEntry(account, userId, rejected) ==
    IF rejected \/ GetBalance(account.id, userId).status # "ok"
    THEN BalanceFallback(account)
    ELSE GetBalance(account.id, userId).body

\* TransactionsService.getAllAccountBalances when find returns the accounts in
\* `order` and the getBalance calls of the accounts in `failing` reject.
BalancesRun(userId, order, failing) ==
    [i \in 1..Len(order) |-> BalancesEntry(order[i], userId, order[i].id \in failing)]

\* TransactionsService.getAllAccountBalances: every list the call may return.
GetAllAccountBalances(userId) ==
    LET found == AccountsFind(accounts, userId)
    IN {BalancesRun(userId, order, failing) :
        order \in BalancesFindOrders(found),
        failing \in SUBSET {a.id : a \in found}}

\* ------------------------------------------------------------------ getStats

\* StatsFilter with the upper bound of BETWEEN taken as exclusive.
StatsFilterOpenEnd(rows, userId, startDate, endDate) ==
    LET base == {t \in rows : t.userId = userId /\ ~t.isDeleted}
    IN IF Truthy(startDate) /\ Truthy(endDate)
       THEN {t \in base : t.date >= startDate.n /\ t.date < endDate.n}
       ELSE IF Truthy(startDate) THEN {t \in base : t.date >= startDate.n}
       ELSE IF Truthy(endDate) THEN {t \in base : t.date <= endDate.n}
       ELSE base

\* The filter the grouped queries share: user, not deleted, the date policy.
StatsFilter(rows, userId, startDate, endDate) ==
    LET base == {t \in rows : t.userId = userId /\ ~t.isDeleted}
    IN IF Truthy(startDate) /\ Truthy(endDate)
       THEN {t \in base : t.date >= startDate.n /\ t.date <= endDate.n}
       ELSE IF Truthy(startDate) THEN {t \in base : t.date >= startDate.n}
       ELSE IF Truthy(endDate) THEN {t \in base : t.date <= endDate.n}
       ELSE base

\* StatsTotalFilter with the userId condition lost.
StatsTotalFilterAnyUser(rows, userId, type, startDate, endDate) ==
    LET base == {t \in rows : t.transactionType = type /\ ~t.isDeleted}
    IN IF Truthy(startDate) /\ Truthy(endDate)
       THEN {t \in base : t.date >= startDate.n /\ t.date <= endDate.n}
       ELSE base

\* The filter of the two totals queries (creditsQb, debitsQb).
StatsTotalFilter(rows, userId, type, startDate, endDate) ==
    LET base == {t \in rows :
                    t.userId = userId /\ t.transactionType = type /\ ~t.isDeleted}
    IN IF Truthy(startDate) /\ Truthy(endDate)
       THEN {t \in base : t.date >= startDate.n /\ t.date <= endDate.n}
       ELSE base

\* leftJoin('transaction.category', 'category'): the selected category columns
\* of a row, all null when it names no category.
JoinedCategory(t, cats) ==
    LET match == {c \in cats : ~IsNull(t.categoryId) /\ c.id = Val(t.categoryId)}
        c == CHOOSE x \in match : TRUE
    IN IF match = {}
       THEN [id |-> Null, name |-> Null, icon |-> Null, color |-> Null]
       ELSE [id |-> Some(c.id), name |-> Some(c.name), icon |-> c.icon,
             color |-> Some(c.color)]

\* item.categoryName || 'Uncategorized'
CategoryNameOr(name) == IF IsNull(name) THEN "Uncategorized" ELSE Val(name)

\* StatsByCategory with transactionType selected but not grouped by.
StatsByCategoryAnyType(rows, cats) ==
    LET keys == {[category |-> JoinedCategory(t, cats), type |-> t.transactionType] :
                    t \in rows}
        group(k) == {t \in rows : JoinedCategory(t, cats) = k.category}
    IN {[categoryId |-> k.category.id,
         categoryName |-> CategoryNameOr(k.category.name),
         categoryIcon |-> k.category.icon,
         categoryColor |-> k.category.color,
         transactionType |-> k.type,
         total |-> SumAmount(group(k)),
         count |-> Cardinality(group(k))] : k \in keys}

\* The byCategory query and its mapping: one item per group of
\* (category.id, name, icon, color, transactionType).
StatsByCategory(rows, cats) ==
    LET keys == {[category |-> JoinedCategory(t, cats), type |-> t.transactionType] :
                    t \in rows}
        group(k) == {t \in rows : /\ JoinedCategory(t, cats) = k.category
                                  /\ t.transactionType = k.type}
    IN {[categoryId |-> k.category.id,
         categoryName |-> CategoryNameOr(k.category.name),
         categoryIcon |-> k.category.icon,
         categoryColor |-> k.category.color,
         transactionType |-> k.type,
         total |-> SumAmount(group(k)),
         count |-> Cardinality(group(k))] : k \in keys}

\* The byPaymentMethod query and its mapping: one item per group of
\* (paymentMethod, transactionType).
StatsByPaymentMethod(rows) ==
    LET keys == {[method |-> t.paymentMethod, type |-> t.transactionType] : t \in rows}
        group(k) == {t \in rows : /\ t.paymentMethod = k.method
                                  /\ t.transactionType = k.type}
    IN {[paymentMethod |-> k.method,
         transactionType |-> k.type,
         total |-> SumAmount(group(k)),
         count |-> Cardinality(group(k))] : k \in keys}

\* TransactionsService.getStats over given tables.
GetStatsOn(rows, cats, userId, startDate, endDate) ==
    [totalCredit |->
        SumAmount(StatsTotalFilter(rows, userId, CREDIT, startDate, endDate)),
     totalDebit |->
        SumAmount(StatsTotalFilter(rows, userId, DEBIT, startDate, endDate)),
     byCategory |->
        StatsByCategory(StatsFilter(rows, userId, startDate, endDate), cats),
     byPaymentMethod |->
        StatsByPaymentMethod(StatsFilter(rows, userId, startDate, endDate))]

\* TransactionsService.getStats
GetStats(userId, startDate, endDate) ==
    GetStatsOn(transactions, categories, userId, startDate, endDate)

\* ------------------------------------------------------------------ expenses

\* A calendar date 'YYYY-MM-DD' of the expenses ledger.
Ymd(year, month, day) == [year |-> year, month |-> month, day |-> day]

\* date <= date on a `date` column (and on ISO date strings).
DateLeq(a, b) ==
    \/ a.year < b.year
    \/ a.year = b.year /\ a.month < b.month
    \/ a.year = b.year /\ a.month = b.month /\ a.day <= b.day

\* new Date(year, monthIndex, day) as the query compares it with a date
\* column: the local calendar date, a year of 0..99 meaning 1900 + year.
NewDateYmd(year, monthIndex, day) ==
    Ymd(IF year >= 0 /\ year <= 99 THEN 1900 + year ELSE year, monthIndex + 1, day)

\* new Date('YYYY-MM-DD'): midnight UTC of the date.
NewDateIso(ymd) == [date |-> ymd, ms |-> 0]

\* What the expenses `date` column holds after save(): the day of the Date.
ExpenseDateColumn(d) == d.date

\* The id of a new expenses row: one no row of the table has.
NextExpenseId == CHOOSE i \in ExpenseIds : \A e \in expenses : e.id # i

\* ExpensesService.create
ExpensesCreate(userId, dto) ==
    /\ Cardinality(expenses) < MaxExpenses
    /\ LET row == [id |-> NextExpenseId,
                   userId |-> userId,
                   amount |-> dto.amount,
                   date |-> ExpenseDateColumn(NewDateIso(dto.date)),
                   categoryId |-> IF Has(dto, "categoryId")
                                  THEN Some(dto.categoryId) ELSE Null,
                   paymentMethod |-> IF Has(dto, "paymentMethod")
                                     THEN dto.paymentMethod ELSE "Cash"]
       IN /\ IF IsNull(row.categoryId) THEN TRUE
             ELSE \E c \in categories : c.id = Val(row.categoryId)
          /\ expenses' = expenses \cup {row}
    /\ UNCHANGED << users, accounts, transactions, categories, calls, client >>

\* expensesRepository.findOne({ where: { id, userId } })
ExpensesFindOne(id, userId) == {e \in expenses : e.id = id /\ e.userId = userId}

\* The entity ExpensesService.update saves.
ExpensesUpdated(expense, dto) ==
    LET dated == IF Has(dto, "date")
                 THEN [expense EXCEPT !.date = ExpenseDateColumn(NewDateIso(dto.date))]
                 ELSE expense
        rest == [f \in DOMAIN dto \ {"date", "categoryId"} |-> dto[f]]
        assigned == ObjectAssign(dated, rest)
    IN IF Has(dto, "categoryId")
       THEN [assigned EXCEPT !.categoryId = Some(dto.categoryId)]
       ELSE assigned

\* ExpensesService.update
ExpensesUpdate(id, userId, dto) ==
    /\ ExpensesFindOne(id, userId) # {}
    /\ LET expense == CHOOSE e \in ExpensesFindOne(id, userId) : TRUE
           saved == ExpensesUpdated(expense, dto)
       IN /\ IF IsNull(saved.categoryId) THEN TRUE
             ELSE \E c \in categories : c.id = Val(saved.categoryId)
          /\ expenses' = (expenses \ {expense}) \cup {saved}
    /\ UNCHANGED << users, accounts, transactions, categories, calls, client >>

\* ExpensesService.remove: the row leaves the table.
ExpensesRemove(id, userId) ==
    /\ ExpensesFindOne(id, userId) # {}
    /\ expenses' = expenses \ ExpensesFindOne(id, userId)
    /\ UNCHANGED << users, accounts, transactions, categories, calls, client >>

\* The filter every query of ExpensesService.getStats applies: the user and
\* the date policy (an absent bound is the empty tuple).
ExpenseStatsFilter(rows, userId, startDate, endDate) ==
    LET base == {e \in rows : e.userId = userId}
    IN IF ~IsNull(startDate) /\ ~IsNull(endDate)
       THEN {e \in base : DateLeq(Val(startDate), e.date) /\ DateLeq(e.date, Val(endDate))}
       ELSE IF ~IsNull(startDate) THEN {e \in base : DateLeq(Val(startDate), e.date)}
       ELSE IF ~IsNull(endDate) THEN {e \in base : DateLeq(e.date, Val(endDate))}
       ELSE base

\* ExpenseStatsByCategory grouped on the category table alone: a row per
\* category, whether or not an expense names it.
ExpenseStatsByCategoryPerCategory(rows, cats) ==
    LET keys == {JoinedCategory(e, cats) : e \in rows}
                    \cup {[id |-> Some(c.id), name |-> Some(c.name), icon |-> c.icon,
                           color |-> Some(c.color)] : c \in cats}
        group(k) == {e \in rows : JoinedCategory(e, cats) = k}
    IN {[categoryId |-> k.id,
         categoryName |-> CategoryNameOr(k.name),
         categoryIcon |-> k.icon,
         categoryColor |-> k.color,
         total |-> SumAmount(group(k)),
         count |-> Cardinality(group(k))] : k \in keys}

\* The byCategory query of ExpensesService.getStats and its mapping: one item
\* per group of (category.id, name, icon, color).
ExpenseStatsByCategory(rows, cats) ==
    LET keys == {JoinedCategory(e, cats) : e \in rows}
        group(k) == {e \in rows : JoinedCategory(e, cats) = k}
    IN {[categoryId |-> k.id,
         categoryName |-> CategoryNameOr(k.name),
         categoryIcon |-> k.icon,
         categoryColor |-> k.color,
         total |-> SumAmount(group(k)),
         count |-> Cardinality(group(k))] : k \in keys}

\* The byPaymentMethod query of ExpensesService.getStats and its mapping.
ExpenseStatsByPaymentMethod(rows) ==
    LET keys == {e.paymentMethod : e \in rows}
        group(k) == {e \in rows : e.paymentMethod = k}
    IN {[paymentMethod |-> k,
         total |-> SumAmount(group(k)),
         count |-> Cardinality(group(k))] : k \in keys}

\* ExpensesService.getStats
ExpensesGetStats(userId, startDate, endDate) ==
    LET rows == ExpenseStatsFilter(expenses, userId, startDate, endDate)
    IN [total |-> SumAmount(rows),
        byCategory |-> ExpenseStatsByCategory(rows, categories),
        byPaymentMethod |-> ExpenseStatsByPaymentMethod(rows)]

\* The year of the clock: new Date().getFullYear().
ThisYear == 2024

\* MonthlyFilter with the last day of the year left out.
MonthlyFilterOpenEnd(rows, userId, startDate, endDate) ==
    {e \in rows : /\ e.userId = userId
                  /\ DateLeq(startDate, e.date)
                  /\ DateLeq(e.date, endDate) /\ e.date # endDate}

\* The rows getMonthlyBreakdown aggregates: the user's, dated BETWEEN the bounds.
MonthlyFilter(rows, userId, startDate, endDate) ==
    {e \in rows : /\ e.userId = userId
                  /\ DateLeq(startDate, e.date)
                  /\ DateLeq(e.date, endDate)}

\* orderBy('month', 'ASC') over the grouped rows.
RECURSIVE OrderByMonth(_)
OrderByMonth(items) ==
    IF items = {} THEN << >>
    ELSE LET first == CHOOSE i \in items : \A o \in items : i.month <= o.month
         IN << first >> \o OrderByMonth(items \ {first})

\* ExpensesService.getMonthlyBreakdown (an absent year is the empty tuple).
GetMonthlyBreakdown(userId, year) ==
    LET currentYear == IF IsNull(year) THEN ThisYear
                       ELSE IF Val(year) = 0 THEN ThisYear ELSE Val(year)
        startDate == NewDateYmd(currentYear, 0, 1)
        endDate == NewDateYmd(currentYear, 11, 31)
        rows == MonthlyFilter(expenses, userId, startDate, endDate)
        group(m) == {e \in rows : e.date.month = m}
    IN OrderByMonth({[month |-> m,
                      total |-> SumAmount(group(m)),
                      count |-> Cardinality(group(m))] : m \in {e.date.month : e \in rows}})

\* ------------------------------------------------------------------ requests

\* The clock of a request: noon of the one day the model's requests arrive on.
Today == 2
Now == Today * MsPerDay + MsPerDay \div 2

\* The account UsersService.create seeds for a new user.
CashAccountDto ==
    [name |-> "Cash", type |-> CASH, openingBalance |-> 0,
     openingBalanceDate |-> JsString(ToISODay(JsDate(Now)))]

\* An account with an opening balance and no opening balance date.
SavingsAccountDto == [name |-> "Savings", type |-> BANK, openingBalance |-> 100000]

UpdateAccountDtos ==
    {[openingBalanceDate |-> JsNull], [openingBalanceDate |-> JsString(Today)]}

\* The amount a request of each type carries where the amount is not varied.
AmountOf(type) == IF type = CREDIT THEN 50000 ELSE 20000

\* Requests that name no category and no payment method.
CreateTransactionDtos ==
    {[amount |-> AmountOf(ty), date |-> JsString(d), transactionType |-> ty,
      accountId |-> a] : d \in Days, ty \in {CREDIT, DEBIT}, a \in AccountIds}

UpdateTransactionDtos ==
    {[date |-> JsString(d)] : d \in Days} \cup {[accountId |-> a] : a \in AccountIds}

\* ------------------------------------------------------------------ auth

\* usersRepository.findOne({ where: { id, isDeleted: false, isActive: true } })
FindById(id) == {u \in users : u.id = id /\ ~u.isDeleted /\ u.isActive}

\* The pair of tokens generateTokens signs: both carry the user's id as `sub`,
\* each is signed with its own secret; `serial` tells one issue from another.
GenerateTokens(userId, serial) ==
    [accessToken |-> [secret |-> "secret", sub |-> userId, serial |-> serial],
     refreshToken |-> [secret |-> "refreshSecret", sub |-> userId, serial |-> serial]]

\* jwtService.verifyAsync(token, { secret: refreshSecret }): the payload of the
\* token, or nothing when it throws: for no token at all, for a token signed
\* with another secret and for one that has expired.
VerifyAsyncRefresh(token, expired) ==
    IF IsNull(token) \/ expired THEN Null
    ELSE IF Val(token).secret # "refreshSecret" THEN Null
    ELSE Some([sub |-> Val(token).sub])

\* The values the userPayload of logout takes in JavaScript: a string (a token
\* as the request body carries it) or an object with properties.
JsToken(token) == [kind |-> "string", token |-> token]
JsObject(fields) == [kind |-> "object", fields |-> fields]

\* value?.name: the property of an object that has it, undefined otherwise
\* (a string has no property of these names).
Prop(value, name) ==
    IF value.kind = "object" /\ name \in DOMAIN value.fields
    THEN Some(value.fields[name])
    ELSE Null

\* a ?? b: the left operand unless it is undefined.
Coalesce(a, b) == IF IsNull(a) THEN b ELSE a

HttpAnswer(status, message) == [status |-> status, message |-> message]

\* AuthService.refresh: a new pair of tokens for the user the token names.
AuthRefresh(refreshToken, expired, serial) ==
    LET payload == VerifyAsyncRefresh(refreshToken, expired)
    IN IF IsNull(payload)
       THEN [status |-> 401, message |-> "Invalid refresh token"]
       ELSE IF FindById(Val(payload).sub) = {}
       THEN [status |-> 401, message |-> "Invalid token-user pair"]
       ELSE [status |-> 201, tokens |-> GenerateTokens(Val(payload).sub, serial)]

\* AuthService.logout(userPayload, refreshToken). What the try block throws,
\* the ForbiddenException of a foreign token included, is caught by the bare
\* catch and leaves as UnauthorizedException('Invalid refresh token').
AuthLogout(userPayload, refreshToken, expired) ==
    IF IsNull(Prop(userPayload, "sub")) /\ IsNull(Prop(userPayload, "id"))
    THEN HttpAnswer(401, "Unauthorized")
    ELSE LET payload == VerifyAsyncRefresh(refreshToken, expired)
             requestUserId ==
                 Coalesce(Prop(userPayload, "id"),
                          Coalesce(Prop(userPayload, "sub"), Prop(userPayload, "userId")))
             thrown ==
                 IF IsNull(payload) THEN "JsonWebTokenError"
                 ELSE IF IsNull(requestUserId) \/ Val(payload).sub # Val(requestUserId)
                 THEN "ForbiddenException"
                 ELSE "nothing"
         IN IF thrown # "nothing"
            THEN HttpAnswer(401, "Invalid refresh token")
            ELSE HttpAnswer(201, "Logged out successfully")

\* AuthController.logout: the service is called with the token of the body as
\* its only argument, so the token arrives as userPayload and refreshToken is
\* undefined.
AuthControllerLogout(body, expired) ==
    AuthLogout(JsToken(body.refreshToken), Null, expired)

\* The tokens a request may carry: every token the server can have signed.
Tokens ==
    UNION {{GenerateTokens(u, n).accessToken, GenerateTokens(u, n).refreshToken} :
           u \in Users, n \in 1..MaxTokens}

\* POST /auth/logout is answered and the exchange is kept: `user` is the user
\* the request's access token names, if it carries one; `expired` tells whether
\* the refresh token of the body is past its expiry when the server verifies it.
Logged(user, body, expired) ==
    [calls EXCEPT !.logout =
        [pc |-> "answered",
         request |-> Some([user |-> user, body |-> body, expired |-> expired]),
         response |-> Some(AuthControllerLogout(body, expired))]]

\* POST /auth/logout from any HTTP client.
PostLogout(user, body, expired) ==
    /\ calls' = Logged(user, body, expired)
    /\ UNCHANGED << users, accounts, transactions, categories, expenses, client >>

\* ------------------------------------------------------------------ client

\* AsyncStorage after multiRemove(['accessToken', 'refreshToken', 'user']).
Cleared == [accessToken |-> Null, refreshToken |-> Null, user |-> Null]

InFlight(c) == c.request.pc \in {"sent", "refreshing"}

\* A request of the ApiService leaves: the request interceptor puts the stored
\* access token, if there is one, into the Authorization header.
Request(c, kind) ==
    [pc |-> "sent", kind |-> kind, retry |-> FALSE, sends |-> 1, refreshes |-> 0,
     authorization |-> c.storage.accessToken,
     body |-> IF kind = "logout" THEN c.storage.refreshToken ELSE Null,
     error |-> Null]

\* The error a rejected request ends with: the error of the request itself or
\* the error of the refresh call.
ErrorOf(call, status) == [call |-> call, status |-> status]

\* The promise of the request settles. ApiService.logout ignores how its
\* request ended and removes the three keys.
Settle(c, pc, error) ==
    [c EXCEPT !.request.pc = pc,
              !.request.error = error,
              !.storage = IF c.request.kind = "logout" THEN Cleared ELSE @]

\* The mutant of the condition: a 401 is refreshed whatever the request's mark.
RefreshesEvery401(status, request) == status = 401

\* error.response?.status === 401 && !originalRequest._retry
RefreshesOn(status, request) == status = 401 /\ ~request.retry

\* The response interceptor on an answer to the request: a 2xx passes; a 401 on
\* a request without the mark sets the mark and, with a refresh token stored,
\* calls /auth/refresh; everything else is rejected with the error.
OnResponse(c, status) ==
    IF status < 300 THEN Settle(c, "resolved", Null)
    ELSE IF RefreshesOn(status, c.request)
    THEN LET marked == [c EXCEPT !.request.retry = TRUE]
         IN IF ~IsNull(c.storage.refreshToken)
            THEN [marked EXCEPT !.request.pc = "refreshing",
                                !.request.refreshes = @ + 1]
            ELSE Settle(marked, "rejected", Some(ErrorOf("request", status)))
    ELSE Settle(c, "rejected", Some(ErrorOf("request", status)))

\* The interceptor after `await axios.post('/auth/refresh')`: the new tokens
\* are stored and the original request is sent again with the new access
\* token; a failed call removes the three keys and rejects with its error.
OnRefreshed(c, answer) ==
    IF answer.status < 300
    THEN [c EXCEPT !.storage.accessToken = Some(answer.tokens.accessToken),
                   !.storage.refreshToken = Some(answer.tokens.refreshToken),
                   !.issued = @ + 1,
                   !.request.authorization = Some(answer.tokens.accessToken),
                   !.request.sends = @ + 1,
                   !.request.pc = "sent"]
    ELSE [Settle(c, "rejected", Some(ErrorOf("refresh", answer.status)))
              EXCEPT !.storage = Cleared]

\* ApiService.login: the tokens and the user of the answer are stored.
ClientLogin(userId) ==
    /\ ~InFlight(client)
    /\ client.issued < MaxTokens
    /\ FindById(userId) # {}
    /\ LET tokens == GenerateTokens(userId, client.issued + 1)
       IN client' = [client EXCEPT
                        !.storage = [accessToken |-> Some(tokens.accessToken),
                                     refreshToken |-> Some(tokens.refreshToken),
                                     user |-> Some(userId)],
                        !.issued = @ + 1]
    /\ UNCHANGED << users, accounts, transactions, categories, expenses, calls >>

\* Any call of the ApiService that goes through this.api.
ClientRequest ==
    /\ ~InFlight(client)
    /\ client' = [client EXCEPT !.request = Request(client, "data")]
    /\ UNCHANGED << users, accounts, transactions, categories, expenses, calls >>

\* ApiService.logout: with a refresh token stored, POST /auth/logout first;
\* without one, the three keys are removed at once.
ClientLogout ==
    /\ ~InFlight(client)
    /\ client' = IF ~IsNull(client.storage.refreshToken)
                 THEN [client EXCEPT !.request = Request(client, "logout")]
                 ELSE [client EXCEPT !.storage = Cleared]
    /\ UNCHANGED << users, accounts, transactions, categories, expenses, calls >>

\* The server answers a request for data, with any status.
ServerAnswers(status) ==
    /\ client.request.pc = "sent"
    /\ client.request.kind = "data"
    /\ client' = OnResponse(client, status)
    /\ UNCHANGED << users, accounts, transactions, categories, expenses, calls >>

\* The server answers the logout request of the client, with what
\* AuthController.logout answers for the body the request carries.
LogoutAnswers(expired) ==
    /\ client.request.pc = "sent"
    /\ client.request.kind = "logout"
    /\ LET body == [refreshToken |-> Val(client.request.body)]
           user == IF IsNull(client.request.authorization) THEN Null
                   ELSE Some(Val(client.request.authorization).sub)
       IN /\ calls' = Logged(user, body, expired)
          /\ client' = OnResponse(client, AuthControllerLogout(body, expired).status)
    /\ UNCHANGED << users, accounts, transactions, categories, expenses >>

\* /auth/refresh answers the interceptor's call, or the call fails on its way
\* (no new pair is signed once MaxTokens pairs are out).
RefreshAnswers(expired) ==
    /\ client.request.pc = "refreshing"
    /\ expired \/ client.issued < MaxTokens
    /\ client' = OnRefreshed(client,
                     AuthRefresh(client.storage.refreshToken, expired, client.issued + 1))
    /\ UNCHANGED << users, accounts, transactions, categories, expenses, calls >>

\* ------------------------------------------------------------------ behaviours

\* The accounts and their ledgers: two users open, re-date and delete accounts
\* and post, edit and delete transactions on any account.
Next ==
    \/ \E u \in Users : AccountsCreate(u, SavingsAccountDto, Now)
    \/ \E id \in AccountIds, u \in Users, dto \in UpdateAccountDtos :
          AccountsUpdate(id, u, dto)
    \/ \E id \in AccountIds, u \in Users : AccountsRemove(id, u)
    \/ \E u \in Users, dto \in CreateTransactionDtos : TransactionsCreate(u, dto)
    \/ \E id \in TransactionIds, u \in Users, dto \in UpdateTransactionDtos :
          TransactionsUpdate(id, u, dto)
    \/ \E id \in TransactionIds, u \in Users : TransactionsRemove(id, u)

Spec == Init /\ [][Next]_vars

\* The row AccountsService.create stores for a dto (the seeded account of a user).
SeededAccount(id, userId) ==
    [id |-> id, userId |-> userId, name |-> CashAccountDto.name,
     type |-> CashAccountDto.type, openingBalance |-> CashAccountDto.openingBalance,
     openingBalanceDate |-> ToDateColumn(NewDate(CashAccountDto.openingBalanceDate)),
     isDeleted |-> FALSE, createdAt |-> id]

\* The first of the default categories UsersService.create seeds.
SeededCategory(id, userId) ==
    [id |-> id, userId |-> userId, name |-> "Food & Dining",
     icon |-> Some("burger"), color |-> "#ef4444"]

\* Both users have signed up: each owns the seeded Cash account, and the first
\* user still has a default category.
InitStats ==
    /\ users = {ExistingUser(u) : u \in Users}
    /\ expenses = {}
    /\ accounts = {SeededAccount(u, u) : u \in Users}
    /\ categories = {SeededCategory(1, 1)}
    /\ transactions = {}
    /\ calls = NoCalls
    /\ client = SignedOut

StatsAmounts == {50000, 20000}
PaymentMethods == {"Cash", "UPI"}

\* What a user posts on the own account: with or without the category, with or
\* without a payment method.
StatsCreateDtos(userId) ==
    LET plain == {[amount |-> m, date |-> JsString(d), transactionType |-> ty,
                   accountId |-> userId] :
                     m \in StatsAmounts, d \in Days, ty \in {CREDIT, DEBIT}}
    IN plain
       \cup {[f \in DOMAIN p \cup {"categoryId"} |->
                IF f = "categoryId" THEN 1 ELSE p[f]] : p \in plain}
       \cup {[f \in DOMAIN p \cup {"paymentMethod"} |->
                IF f = "paymentMethod" THEN "UPI" ELSE p[f]] : p \in plain}
       \cup {[f \in DOMAIN p \cup {"categoryId", "paymentMethod"} |->
                IF f = "categoryId" THEN 1
                ELSE IF f = "paymentMethod" THEN "UPI" ELSE p[f]] : p \in plain}

StatsUpdateDtos ==
    {[date |-> JsString(d)] : d \in Days}
        \cup {[categoryId |-> 1]}
        \cup {[paymentMethod |-> pm] : pm \in PaymentMethods}

\* The ledger the statistics read: two signed-up users post, edit and delete
\* transactions of every category, type, payment method and day.
NextStats ==
    \/ \E u \in Users : \E dto \in StatsCreateDtos(u) : TransactionsCreate(u, dto)
    \/ \E id \in TransactionIds, u \in Users, dto \in StatsUpdateDtos :
          TransactionsUpdate(id, u, dto)
    \/ \E id \in TransactionIds, u \in Users : TransactionsRemove(id, u)

SpecStats == InitStats /\ [][NextStats]_vars

\* The dates the expense requests carry: the first and the last days of the
\* clock's year, a second day of its first month, and the days around it.
ExpenseDates ==
    {Ymd(ThisYear - 1, 12, 31), Ymd(ThisYear, 1, 1), Ymd(ThisYear, 1, 31),
     Ymd(ThisYear, 12, 31), Ymd(ThisYear + 1, 1, 1)}

\* What a user records as an expense: plain, in the category, or paid by UPI.
CreateExpenseDtos ==
    {[amount |-> 20000, date |-> d] : d \in ExpenseDates}
        \cup {[amount |-> 50000, date |-> d, categoryId |-> 1] : d \in ExpenseDates}
        \cup {[amount |-> 50000, date |-> d, paymentMethod |-> "UPI"] : d \in ExpenseDates}

UpdateExpenseDtos ==
    {[date |-> d] : d \in ExpenseDates} \cup {[categoryId |-> 1]}

\* What the first user posts beside the expenses: a plain debit, or a credit
\* in the category paid by UPI.
GroupCreateDtos ==
    {[amount |-> AmountOf(DEBIT), date |-> JsString(Today), transactionType |-> DEBIT,
      accountId |-> 1],
     [amount |-> AmountOf(CREDIT), date |-> JsString(Today), transactionType |-> CREDIT,
      accountId |-> 1, categoryId |-> 1, paymentMethod |-> "UPI"]}

\* The legacy expenses ledger beside the transactions ledger: two signed-up
\* users record, edit and delete expenses, the first also posts transactions.
NextExpenses ==
    \/ \E u \in Users, dto \in CreateExpenseDtos : ExpensesCreate(u, dto)
    \/ \E id \in ExpenseIds, u \in Users, dto \in UpdateExpenseDtos :
          ExpensesUpdate(id, u, dto)
    \/ \E id \in ExpenseIds, u \in Users : ExpensesRemove(id, u)
    \/ \E dto \in GroupCreateDtos : TransactionsCreate(1, dto)
    \/ \E id \in TransactionIds : TransactionsRemove(id, 1)

SpecExpenses == InitStats /\ [][NextExpenses]_vars

\* What a user posts on the own account while the category may go: a credit or
\* a debit of today, in the category or in none.
CategoryLedgerDtos(userId) ==
    LET plain == {[amount |-> AmountOf(ty), date |-> JsString(Today),
                   transactionType |-> ty, accountId |-> userId] :
                     ty \in {CREDIT, DEBIT}}
    IN plain \cup {[f \in DOMAIN p \cup {"categoryId"} |->
                      IF f = "categoryId" THEN 1 ELSE p[f]] : p \in plain}

\* The expense a user records in the category.
CategoryExpenseDto == [amount |-> 50000, date |-> Ymd(ThisYear, 1, 1), categoryId |-> 1]

\* The ledgers around a category: two signed-up users post and delete
\* transactions and record expenses, in the category or in none, and the
\* category's owner deletes it.
NextCategories ==
    \/ \E u \in Users : \E dto \in CategoryLedgerDtos(u) : TransactionsCreate(u, dto)
    \/ \E id \in TransactionIds, u \in Users : TransactionsRemove(id, u)
    \/ \E u \in Users : ExpensesCreate(u, CategoryExpenseDto)
    \/ \E id \in CategoryIds, u \in Users : CategoriesRemove(id, u)

SpecCategories == InitStats /\ [][NextCategories]_vars

\* The opening balances of the account whose balance is computed: none, ten
\* hundredths, and amounts with a whole part.
OpeningBalances == {0, 10, 110, 100000}

\* The first user's account opened with one of the opening balances, before
\* any transaction.
InitNumbers ==
    /\ users = {ExistingUser(u) : u \in Users}
    /\ accounts \in {{[SeededAccount(1, 1) EXCEPT !.openingBalance = b]} :
                        b \in OpeningBalances}
    /\ categories = {}
    /\ transactions = {}
    /\ expenses = {}
    /\ calls = NoCalls
    /\ client = SignedOut

\* Amounts with hundredths, as a user enters them.
DecimalAmounts == {10, 20, 70, 2599}

\* Credits and debits of today on the account.
DecimalDtos ==
    {[amount |-> m, date |-> JsString(Today), transactionType |-> ty, accountId |-> 1] :
        m \in DecimalAmounts, ty \in {CREDIT, DEBIT}}

\* The ledger whose balance is computed: the first user posts and deletes
\* transactions of amounts with hundredths.
NextNumbers ==
    \/ \E dto \in DecimalDtos : TransactionsCreate(1, dto)
    \/ \E id \in TransactionIds : TransactionsRemove(id, 1)

SpecNumbers == InitNumbers /\ [][NextNumbers]_vars

\* The first user owns the seeded Cash account and a savings account.
InitConcurrent ==
    /\ users = {ExistingUser(u) : u \in Users}
    /\ accounts = {SeededAccount(1, 1),
                   [SeededAccount(2, 1) EXCEPT !.name = "Savings", !.type = BANK]}
    /\ categories = {}
    /\ transactions = {}
    /\ expenses = {}
    /\ calls = NoCalls
    /\ client = SignedOut

\* What the user posts on the savings account while its balance is computed.
BalanceRaceCreateDtos ==
    {[amount |-> AmountOf(ty), date |-> JsString(Today), transactionType |-> ty,
      accountId |-> 2] : ty \in {CREDIT, DEBIT}}

\* A transaction is turned into a credit or into a debit.
BalanceRaceUpdateDtos == {[transactionType |-> ty] : ty \in {CREDIT, DEBIT}}

\* A getBalance of the savings account runs from await to await while the
\* account's transactions are posted, edited and deleted.
NextBalanceRace ==
    \/ GetBalanceLookup(2, 1)
    \/ GetBalanceCredit
    \/ GetBalanceDebit
    \/ \E dto \in BalanceRaceCreateDtos : TransactionsCreate(1, dto)
    \/ \E id \in TransactionIds, dto \in BalanceRaceUpdateDtos :
          TransactionsUpdate(id, 1, dto)
    \/ \E id \in TransactionIds : TransactionsRemove(id, 1)

SpecBalanceRace == InitConcurrent /\ [][NextBalanceRace]_vars

\* What the user posts while an account is removed: a credit or a debit on
\* either account.
RemoveRaceCreateDtos ==
    {[amount |-> AmountOf(ty), date |-> JsString(Today), transactionType |-> ty,
      accountId |-> a] : ty \in {CREDIT, DEBIT}, a \in AccountIds}

\* A transaction is moved to one of the accounts.
RemoveRaceUpdateDtos == {[accountId |-> a] : a \in AccountIds}

\* A remove of an account runs from await to await while transactions are
\* posted, moved and deleted.
NextRemoveRace ==
    \/ \E id \in AccountIds : AccountsRemoveCheck(id, 1)
    \/ AccountsRemoveSave
    \/ \E dto \in RemoveRaceCreateDtos : TransactionsCreate(1, dto)
    \/ \E id \in TransactionIds, dto \in RemoveRaceUpdateDtos :
          TransactionsUpdate(id, 1, dto)
    \/ \E id \in TransactionIds : TransactionsRemove(id, 1)

SpecRemoveRace == InitConcurrent /\ [][NextRemoveRace]_vars

\* The mobile client and the auth endpoints: the client signs in, sends
\* requests and signs out; the server answers; other HTTP clients post to
\* /auth/logout whatever tokens they hold. Every answer the client waits for
\* arrives in the end (a call that gets no answer ends as a network error).
InitClient ==
    /\ users = {ExistingUser(u) : u \in Users}
    /\ expenses = {}
    /\ accounts = {}
    /\ transactions = {}
    /\ categories = {}
    /\ calls = NoCalls
    /\ client = SignedOut

Statuses == {200, 401, 500}

Answers ==
    \/ \E status \in Statuses : ServerAnswers(status)
    \/ \E expired \in BOOLEAN : LogoutAnswers(expired)
    \/ \E expired \in BOOLEAN : RefreshAnswers(expired)

NextClient ==
    \/ \E u \in Users : ClientLogin(u)
    \/ ClientRequest
    \/ ClientLogout
    \/ Answers
    \/ \E user \in {Null} \cup {Some(u) : u \in Users}, token \in Tokens, expired \in BOOLEAN :
           PostLogout(user, [refreshToken |-> token], expired)

SpecClient == InitClient /\ [][NextClient]_vars /\ WF_vars(Answers)

\* Nobody has signed up yet.
InitLifecycle ==
    /\ users = {}
    /\ accounts = {}
    /\ categories = {}
    /\ transactions = {}
    /\ expenses = {}
    /\ calls = NoCalls
    /\ client = SignedOut

\* Who signs up: one by email alone, one asking for the username the other's
\* email prefix gives.
CreateUserDtos ==
    {[email |-> "ann@x.io"], [email |-> "bob@x.io", username |-> Username("ann", 0)]}

\* What rejects during a signup: nothing, the create of the default account,
\* or the create of the first default category.
SeedFailures ==
    {[account |-> FALSE, categories |-> {}],
     [account |-> TRUE, categories |-> {}],
     [account |-> FALSE, categories |-> {1}]}

\* The accounts a user opens: a cash account named as the default one but in
\* capitals, or a bank account named as the default one.
LifecycleAccountDtos == {[name |-> "CASH", type |-> CASH], [name |-> "Cash", type |-> BANK]}

\* How a user edits an account: another name.
LifecycleAccountUpdates == {[name |-> "Wallet"]}

\* What a user posts: a debit of today on any account id.
LifecycleTransactionDtos ==
    {[amount |-> AmountOf(DEBIT), date |-> JsString(Today), transactionType |-> DEBIT,
      accountId |-> a] : a \in AccountIds}

\* The life of the accounts: users sign up (the seeding may fail in part), open,
\* edit and delete accounts, and post, move and delete transactions.
NextLifecycle ==
    \/ \E dto \in CreateUserDtos, fails \in SeedFailures :
          UsersCreate(dto, Now, fails.account, fails.categories)
    \/ \E u \in users, dto \in LifecycleAccountDtos : AccountsCreate(u.id, dto, Now)
    \/ \E id \in AccountIds, u \in users, dto \in LifecycleAccountUpdates :
          AccountsUpdate(id, u.id, dto)
    \/ \E id \in AccountIds, u \in users : AccountsRemove(id, u.id)
    \/ \E u \in users, dto \in LifecycleTransactionDtos : TransactionsCreate(u.id, dto)
    \/ \E id \in TransactionIds, u \in users, a \in AccountIds :
          TransactionsUpdate(id, u.id, [accountId |-> a])
    \/ \E id \in TransactionIds, u \in users : TransactionsRemove(id, u.id)

SpecLifecycle == InitLifecycle /\ [][NextLifecycle]_vars

\* The amounts the bodies carry: negative, zero, the least valid one, and more.
BodyAmounts == {0 - 20000, 0, MinAmount, 20000}

\* The bodies of POST /transactions: any amount, any type, today or no date
\* at all that parses, on the sender's account.
PostTransactionBodies(userId) ==
    {[amount |-> m, date |-> dt, transactionType |-> ty, accountId |-> userId] :
        m \in BodyAmounts, dt \in {JsString(Today), JsBadString}, ty \in {CREDIT, DEBIT}}

\* The bodies of PATCH /transactions/:id: another amount, another type.
PatchTransactionBodies ==
    {[amount |-> m] : m \in BodyAmounts}
        \cup {[transactionType |-> ty] : ty \in {CREDIT, DEBIT}}
        \cup {[amount |-> m, transactionType |-> ty] :
                 m \in BodyAmounts, ty \in {CREDIT, DEBIT}}

\* The requests as they arrive: two signed-up users send bodies, valid and
\* not, to create and edit transactions, and delete transactions.
NextRequests ==
    \/ \E u \in Users : \E dto \in PostTransactionBodies(u) : TransactionsPost(u, dto)
    \/ \E id \in TransactionIds, u \in Users, dto \in PatchTransactionBodies :
          TransactionsPatch(id, u, dto)
    \/ \E id \in TransactionIds, u \in Users : TransactionsRemove(id, u)

SpecRequests == InitStats /\ [][NextRequests]_vars

\* ------------------------------------------------------------------ properties

RECURSIVE SumOf(_)
\* The sum of the amounts of a set of transactions.
SumOf(ts) ==
    IF ts = {} THEN 0
    ELSE LET t == CHOOSE x \in ts : TRUE IN t.amount + SumOf(ts \ {t})

\* The transactions of a type that count towards an account: on the account,
\* not deleted, and dated on or after the opening balance date when there is one.
Counted(a, type) ==
    {t \in transactions :
        /\ t.accountId = a.id
        /\ ~t.isDeleted
        /\ t.transactionType = type
        /\ IF IsNull(a.openingBalanceDate) THEN TRUE
           ELSE t.date >= Val(a.openingBalanceDate)}

\* C1: for every account that is not deleted, getBalance asked by its owner
\* answers totalCredit and totalDebit equal to the sums of the amounts of the
\* counted credit and debit transactions, and balance = openingBalance +
\* totalCredit - totalDebit; with nothing counted both sums are 0 and the
\* balance is the opening balance.
C1_BalanceIdentity ==
    \A a \in accounts :
        ~a.isDeleted =>
            LET r == GetBalance(a.id, a.userId)
            IN /\ r.status = "ok"
               /\ r.body.openingBalance = a.openingBalance
               /\ r.body.totalCredit = SumOf(Counted(a, CREDIT))
               /\ r.body.totalDebit = SumOf(Counted(a, DEBIT))
               /\ r.body.balance = a.openingBalance + SumOf(Counted(a, CREDIT))
                                      - SumOf(Counted(a, DEBIT))
               /\ (Counted(a, CREDIT) \cup Counted(a, DEBIT) = {} =>
                      /\ r.body.totalCredit = 0
                      /\ r.body.totalDebit = 0
                      /\ r.body.balance = a.openingBalance)

\* An account with an opening balance date whose balance counts one credit and
\* one debit.
C1_Witness ==
    \E a \in accounts :
        /\ ~a.isDeleted
        /\ ~IsNull(a.openingBalanceDate)
        /\ GetBalance(a.id, a.userId).status = "ok"
        /\ GetBalance(a.id, a.userId).body.totalCredit = 50000
        /\ GetBalance(a.id, a.userId).body.totalDebit = 20000
        /\ GetBalance(a.id, a.userId).body.balance = 130000

\* The values the optional startDate and endDate of getStats take.
StatsDates == {JsNull} \cup {JsString(d) : d \in Days}

\* A step that soft-deletes transaction t.
SoftDeletes(t) ==
    /\ ~t.isDeleted
    /\ t \in transactions
    /\ \E n \in transactions' : n.id = t.id /\ n.isDeleted
    /\ \A o \in transactions : o.id # t.id => o \in transactions'

\* C2: a step that soft-deletes a transaction t leaves every getBalance answer
\* and every getStats report equal to the one computed over the ledger before
\* the step with t taken out of it.
C2_SoftDeleteExclusion ==
    [][\A t \in transactions :
          SoftDeletes(t) =>
              /\ \A a \in accounts, u \in Users :
                    GetBalanceOn(accounts', transactions', a.id, u)
                        = GetBalanceOn(accounts, transactions \ {t}, a.id, u)
              /\ \A u \in Users, s \in StatsDates, e \in StatsDates :
                    GetStatsOn(transactions', categories', u, s, e)
                        = GetStatsOn(transactions \ {t}, categories, u, s, e)]_vars

\* A deleted debit beside a live credit on the same account: the balance and
\* the statistics of the owner show the credit alone.
C2_Witness ==
    \E t \in transactions, o \in transactions :
        /\ t.isDeleted /\ t.transactionType = DEBIT
        /\ ~o.isDeleted /\ o.transactionType = CREDIT
        /\ o.accountId = t.accountId /\ o.userId = t.userId
        /\ o.date >= Today /\ t.date >= Today
        /\ GetBalance(t.accountId, t.userId).status = "ok"
        /\ GetBalance(t.accountId, t.userId).body.totalDebit = 0
        /\ GetBalance(t.accountId, t.userId).body.totalCredit = o.amount
        /\ GetStats(t.userId, JsNull, JsNull).totalDebit = 0
        /\ Cardinality(GetStats(t.userId, JsNull, JsNull).byCategory) = 1

\* The forms the opening balance date of an account entity can take in
\* getBalance: absent, a string or a Date, each valid or not.
ValidRawDates ==
    {JsString(d) : d \in Days}
        \cup {JsDate(d * MsPerDay) : d \in Days}
        \cup {JsDate(d * MsPerDay + MsPerDay \div 2) : d \in Days}
InvalidRawDates == {JsNull, JsBadString, JsInvalidDate}

\* The calendar day a valid opening balance date stands for.
DayOfRaw(raw) == IF raw.kind = "string" THEN raw.n ELSE raw.n \div MsPerDay

\* The transactions of a type on an account that are not deleted.
Live(a, type) ==
    {t \in transactions :
        t.accountId = a.id /\ ~t.isDeleted /\ t.transactionType = type}

\* C3: with a present and valid opening balance date, getBalance sums exactly
\* the account's live transactions dated on or after that day (one dated before
\* it counts in neither sum, one dated on it counts); with an absent or invalid
\* date it sums every live transaction of the account.
C3_OpeningDateFilter ==
    \A a \in accounts :
        /\ \A raw \in ValidRawDates :
              LET b == BalanceOf(a, raw, transactions)
              IN /\ b.totalCredit
                      = SumOf({t \in Live(a, CREDIT) : ~(t.date < DayOfRaw(raw))})
                 /\ b.totalDebit
                      = SumOf({t \in Live(a, DEBIT) : ~(t.date < DayOfRaw(raw))})
                 /\ b.openingBalanceDate = Some(DayOfRaw(raw))
        /\ \A raw \in InvalidRawDates :
              LET b == BalanceOf(a, raw, transactions)
              IN /\ b.totalCredit = SumOf(Live(a, CREDIT))
                 /\ b.totalDebit = SumOf(Live(a, DEBIT))
                 /\ b.openingBalanceDate = Null

\* An account with a stored opening balance date, one live transaction dated
\* the day before it and one dated on it: the balance counts the second alone.
C3_Witness ==
    \E a \in accounts, t \in transactions, o \in transactions :
        /\ ~a.isDeleted /\ ~IsNull(a.openingBalanceDate)
        /\ t.accountId = a.id /\ ~t.isDeleted /\ t.transactionType = CREDIT
        /\ t.date + 1 = Val(a.openingBalanceDate)
        /\ o.accountId = a.id /\ ~o.isDeleted /\ o.transactionType = DEBIT
        /\ o.date = Val(a.openingBalanceDate)
        /\ GetBalance(a.id, a.userId).body.totalCredit = 0
        /\ GetBalance(a.id, a.userId).body.totalDebit = o.amount

\* C4: getBalance answers NotFound, and nothing else, for an account id that
\* names no row, a row of another user, or a soft-deleted row.
C4_BalanceNotFound ==
    \A id \in AccountIds, u \in Users :
        LET rows == {a \in accounts : a.id = id}
        IN (rows = {} \/ \E a \in rows : a.userId # u \/ a.isDeleted) =>
              /\ GetBalance(id, u).status = "NotFound"
              /\ DOMAIN GetBalance(id, u) = {"status"}

\* A user owns a deleted account, and another user's live account exists.
C4_Witness ==
    \E a \in accounts, b \in accounts :
        /\ a.isDeleted
        /\ ~b.isDeleted /\ b.userId # a.userId
        /\ GetBalance(a.id, a.userId) = NotFound
        /\ GetBalance(b.id, a.userId) = NotFound
        /\ GetBalance(b.id, b.userId).status = "ok"

\* The position of the entry of an account in a list of balances.
EntriesOf(list, id) == {i \in 1..Len(list) : list[i].accountId = id}

\* C5 as stated: every list getAllAccountBalances may return holds exactly one
\* entry per non-deleted account of the user, none for other accounts, in
\* ascending order of account creation.
C5_OnePerAccountInCreationOrder ==
    \A u \in Users : \A list \in GetAllAccountBalances(u) :
        /\ \A a \in accounts :
              Cardinality(EntriesOf(list, a.id))
                  = IF a.userId = u /\ ~a.isDeleted THEN 1 ELSE 0
        /\ \A i, j \in 1..Len(list) :
              i < j =>
                  \A a, b \in accounts :
                      a.id = list[i].accountId /\ b.id = list[j].accountId =>
                          a.createdAt <= b.createdAt

InWindow(day, startDate, endDate) ==
    /\ (startDate = JsNull \/ day >= startDate.n)
    /\ (endDate = JsNull \/ day <= endDate.n)

\* The caller's live transactions inside the window.
Filtered(u, startDate, endDate) ==
    {t \in transactions :
        t.userId = u /\ ~t.isDeleted /\ InWindow(t.date, startDate, endDate)}

\* The group of a report's byCategory for a category and a type.
CategoryGroup(report, categoryId, type) ==
    {g \in report.byCategory :
        g.categoryId = categoryId /\ g.transactionType = type}

\* The group of a report's byPaymentMethod for a method and a type.
MethodGroup(report, method, type) ==
    {g \in report.byPaymentMethod :
        g.paymentMethod = method /\ g.transactionType = type}

\* C7 as stated: every sub-query of getStats applies the same date policy, the
\* two totals included: both bounds, only a start, only an end, or none.
C7_UniformDateFilter ==
    \A u \in Users, s \in StatsDates, e \in StatsDates :
        LET report == GetStats(u, s, e)
            in == Filtered(u, s, e)
        IN /\ report.totalCredit = SumOf({t \in in : t.transactionType = CREDIT})
           /\ report.totalDebit = SumOf({t \in in : t.transactionType = DEBIT})
           /\ \A c \in {Null} \cup {Some(i) : i \in CategoryIds}, ty \in {CREDIT, DEBIT} :
                 LET of == {t \in in : t.categoryId = c /\ t.transactionType = ty}
                 IN \A g \in CategoryGroup(report, c, ty) : g.total = SumOf(of)
           /\ \A pm \in PaymentMethods, ty \in {CREDIT, DEBIT} :
                 LET of == {t \in in : t.paymentMethod = pm /\ t.transactionType = ty}
                 IN \A g \in MethodGroup(report, pm, ty) : g.total = SumOf(of)

RECURSIVE SumTotals(_)
\* The sum of the totals of a set of groups (0 for no group).
SumTotals(gs) ==
    IF gs = {} THEN 0
    ELSE LET g == CHOOSE x \in gs : TRUE IN g.total + SumTotals(gs \ {g})

RECURSIVE SumCounts(_)
\* The sum of the counts of a set of groups (0 for no group).
SumCounts(gs) ==
    IF gs = {} THEN 0
    ELSE LET g == CHOOSE x \in gs : TRUE IN g.count + SumCounts(gs \ {g})

\* The report of getStats for a user over the days lo..hi.
ReportIn(u, lo, hi) == GetStats(u, JsString(lo), JsString(hi))

\* The numbers of a report: its two totals, and the total and the count of
\* each byCategory and byPaymentMethod group (0 where the group is absent).
Measures(report) ==
    [totalCredit |-> report.totalCredit,
     totalDebit |-> report.totalDebit,
     categoryTotal |->
        [k \in ({Null} \cup {Some(i) : i \in CategoryIds}) \X {CREDIT, DEBIT} |->
            SumTotals(CategoryGroup(report, k[1], k[2]))],
     categoryCount |->
        [k \in ({Null} \cup {Some(i) : i \in CategoryIds}) \X {CREDIT, DEBIT} |->
            SumCounts(CategoryGroup(report, k[1], k[2]))],
     methodTotal |->
        [k \in PaymentMethods \X {CREDIT, DEBIT} |->
            SumTotals(MethodGroup(report, k[1], k[2]))],
     methodCount |->
        [k \in PaymentMethods \X {CREDIT, DEBIT} |->
            SumCounts(MethodGroup(report, k[1], k[2]))]]

\* The sum of two reports' numbers.
AddMeasures(x, y) ==
    [totalCredit |-> x.totalCredit + y.totalCredit,
     totalDebit |-> x.totalDebit + y.totalDebit,
     categoryTotal |->
        [k \in DOMAIN x.categoryTotal |-> x.categoryTotal[k] + y.categoryTotal[k]],
     categoryCount |->
        [k \in DOMAIN x.categoryCount |-> x.categoryCount[k] + y.categoryCount[k]],
     methodTotal |->
        [k \in DOMAIN x.methodTotal |-> x.methodTotal[k] + y.methodTotal[k]],
     methodCount |->
        [k \in DOMAIN x.methodCount |-> x.methodCount[k] + y.methodCount[k]]]

RECURSIVE PartitionSum(_, _, _, _)
\* The sum of the numbers of the reports over the sub-ranges into which the
\* days in `cuts` (each the last day of a sub-range) cut lo..hi.
PartitionSum(u, lo, hi, cuts) ==
    LET inside == {c \in cuts : c >= lo /\ c < hi}
        first == CHOOSE c \in inside : \A o \in inside : c <= o
    IN IF inside = {} THEN Measures(ReportIn(u, lo, hi))
       ELSE AddMeasures(Measures(ReportIn(u, lo, first)),
                        PartitionSum(u, first + 1, hi, cuts))

\* C8: for every user, every range of days s..e and every cut of it into
\* contiguous sub-ranges, the totals and the per-group totals and counts of
\* getStats over s..e are the sums of those of getStats over the sub-ranges.
C8_RangeAdditivity ==
    \A u \in Users, s \in Days, e \in Days :
        s <= e =>
            \A cuts \in SUBSET (s..(e - 1)) :
                Measures(ReportIn(u, s, e)) = PartitionSum(u, s, e, cuts)

\* Two transactions of one group on the first and the last day: the report of
\* the whole range counts two, each of the sub-ranges 1..1 and 2..MaxDay one.
C8_Witness ==
    \E u \in Users :
        /\ \E g \in ReportIn(u, 1, MaxDay).byCategory : g.count = 2
        /\ \E g \in ReportIn(u, 1, 1).byCategory : g.count = 1
        /\ \E g \in ReportIn(u, 2, MaxDay).byCategory : g.count = 1
        /\ ReportIn(u, 1, MaxDay).totalCredit
              = ReportIn(u, 1, 1).totalCredit + ReportIn(u, 2, MaxDay).totalCredit
        /\ ReportIn(u, 1, 1).totalCredit > 0
        /\ ReportIn(u, 2, MaxDay).totalCredit > 0

\* C9: the report of getStats is the report computed from the caller's own
\* transactions that are not deleted: rows of other users and deleted rows
\* change no value of it.
C9_OwnLiveRowsOnly ==
    \A u \in Users, s \in StatsDates, e \in StatsDates :
        GetStats(u, s, e)
            = GetStatsOn({t \in transactions : t.userId = u /\ ~t.isDeleted},
                         categories, u, s, e)

\* A live credit of one user beside a live credit of the other in the same
\* category: the first user's report shows the own credit alone.
C9_Witness ==
    \E t \in transactions, o \in transactions :
        /\ ~t.isDeleted /\ ~o.isDeleted
        /\ t.userId # o.userId
        /\ t.transactionType = CREDIT /\ o.transactionType = CREDIT
        /\ t.categoryId = o.categoryId
        /\ GetStats(t.userId, JsNull, JsNull).totalCredit = t.amount
        /\ \A g \in GetStats(t.userId, JsNull, JsNull).byCategory :
              g.count = 1 /\ g.total = t.amount

\* The name, icon and color byCategory shows for a category reference.
ShownCategory(categoryId) ==
    IF IsNull(categoryId)
    THEN [name |-> "Uncategorized", icon |-> Null, color |-> Null]
    ELSE LET c == CHOOSE x \in categories : x.id = Val(categoryId)
         IN [name |-> c.name, icon |-> c.icon, color |-> Some(c.color)]

\* C10: byCategory holds exactly one entry per (category, type) pair seen among
\* the filtered transactions, with the sum of the amounts and the number of the
\* pair's transactions; the pair of no category is named "Uncategorized" and
\* has no icon and no color.
C10_ByCategoryGroups ==
    \A u \in Users, s \in StatsDates, e \in StatsDates :
        LET in == Filtered(u, s, e)
            pairs == {<< t.categoryId, t.transactionType >> : t \in in}
            byCategory == GetStats(u, s, e).byCategory
        IN /\ Cardinality(byCategory) = Cardinality(pairs)
           /\ \A p \in pairs :
                 LET of == {t \in in : t.categoryId = p[1] /\ t.transactionType = p[2]}
                 IN \E g \in byCategory :
                       /\ g.categoryId = p[1]
                       /\ g.transactionType = p[2]
                       /\ g.total = SumOf(of)
                       /\ g.count = Cardinality(of)
                       /\ g.categoryName = ShownCategory(p[1]).name
                       /\ g.categoryIcon = ShownCategory(p[1]).icon
                       /\ g.categoryColor = ShownCategory(p[1]).color

\* A user with a debit in no category and a debit in a category: byCategory
\* has the "Uncategorized" group without icon and color beside the named one.
C10_Witness ==
    \E u \in Users :
        LET byCategory == GetStats(u, JsNull, JsNull).byCategory
        IN /\ Cardinality(byCategory) = 2
           /\ \E g \in byCategory :
                 /\ g.categoryName = "Uncategorized"
                 /\ IsNull(g.categoryId) /\ IsNull(g.categoryIcon)
                 /\ IsNull(g.categoryColor)
                 /\ g.transactionType = DEBIT /\ g.count = 1
           /\ \E g \in byCategory :
                 /\ g.categoryName = "Food & Dining"
                 /\ g.transactionType = DEBIT /\ g.count = 1

\* The date arguments of ExpensesService.getStats: absent, or a date.
ExpenseStatsDates == {Null} \cup {Some(d) : d \in ExpenseDates}

\* The caller's expenses inside the window.
ExpensesInWindow(u, startDate, endDate) ==
    {x \in expenses :
        /\ x.userId = u
        /\ (IsNull(startDate) \/ DateLeq(Val(startDate), x.date))
        /\ (IsNull(endDate) \/ DateLeq(x.date, Val(endDate)))}

\* C11: every group getStats emits in byCategory and byPaymentMethod, of the
\* transactions ledger and of the expenses ledger, has a count of at least one
\* and stands for at least one row that matches the filter.
C11_NoEmptyGroup ==
    /\ \A u \in Users, s \in StatsDates, e \in StatsDates :
          LET report == GetStats(u, s, e)
          IN /\ \A g \in report.byCategory :
                   /\ g.count >= 1
                   /\ \E t \in Filtered(u, s, e) :
                         t.categoryId = g.categoryId
                             /\ t.transactionType = g.transactionType
             /\ \A g \in report.byPaymentMethod :
                   /\ g.count >= 1
                   /\ \E t \in Filtered(u, s, e) :
                         t.paymentMethod = g.paymentMethod
                             /\ t.transactionType = g.transactionType
    /\ \A u \in Users, s \in ExpenseStatsDates, e \in ExpenseStatsDates :
          LET report == ExpensesGetStats(u, s, e)
          IN /\ \A g \in report.byCategory :
                   /\ g.count >= 1
                   /\ \E x \in ExpensesInWindow(u, s, e) : x.categoryId = g.categoryId
             /\ \A g \in report.byPaymentMethod :
                   /\ g.count >= 1
                   /\ \E x \in ExpensesInWindow(u, s, e) :
                         x.paymentMethod = g.paymentMethod

\* A user who owns a category and has only uncategorized rows paid in cash:
\* both reports have groups, none for the category and none for UPI.
C11_Witness ==
    \E u \in Users :
        LET old == ExpensesGetStats(u, Null, Null)
            new == GetStats(u, JsNull, JsNull)
        IN /\ \E c \in categories : c.userId = u
           /\ old.byCategory # {} /\ new.byCategory # {}
           /\ \A g \in old.byCategory \cup new.byCategory : IsNull(g.categoryId)
           /\ \A g \in old.byPaymentMethod \cup new.byPaymentMethod :
                 g.paymentMethod = "Cash" /\ g.count >= 1

\* The year arguments of getMonthlyBreakdown: absent, or a year.
MonthlyYears == {Null} \cup {Some(y) : y \in (ThisYear - 1)..(ThisYear + 1)}

\* The user's expenses of a month of a year.
ExpensesOfMonth(u, year, month) ==
    {x \in expenses : x.userId = u /\ x.date.year = year /\ x.date.month = month}

\* C12: getMonthlyBreakdown lists, in ascending month order, exactly one entry
\* for every month of the year (the clock's year when none is given) in which
\* the user has an expense, with the sum and the number of that month's
\* expenses; a month without expenses, another year and another user add nothing.
C12_MonthlyBreakdown ==
    \A u \in Users, year \in MonthlyYears :
        LET list == GetMonthlyBreakdown(u, year)
            y == IF IsNull(year) THEN ThisYear ELSE Val(year)
        IN /\ \A m \in 1..12 :
                 LET of == ExpensesOfMonth(u, y, m)
                     at == {i \in 1..Len(list) : list[i].month = m}
                 IN IF of = {} THEN at = {}
                    ELSE /\ Cardinality(at) = 1
                         /\ \A i \in at : /\ list[i].total = SumOf(of)
                                          /\ list[i].count = Cardinality(of)
           /\ \A i \in 1..Len(list) : list[i].month \in 1..12
           /\ \A i, j \in 1..Len(list) : i < j => list[i].month < list[j].month

\* A user with expenses on the first and the last day of the clock's year:
\* the breakdown of the year is January and December, one expense each, and
\* the next year's breakdown is empty.
C12_Witness ==
    \E u \in Users :
        /\ Len(GetMonthlyBreakdown(u, Null)) = 2
        /\ GetMonthlyBreakdown(u, Null)[1].month = 1
        /\ GetMonthlyBreakdown(u, Null)[2].month = 12
        /\ GetMonthlyBreakdown(u, Null)[1].count = 1
        /\ GetMonthlyBreakdown(u, Some(ThisYear)) = GetMonthlyBreakdown(u, Null)
        /\ GetMonthlyBreakdown(u, Some(ThisYear + 1)) = << >>
        /\ \E x \in expenses : x.userId = u /\ x.date = Ymd(ThisYear, 1, 1)
        /\ \E x \in expenses : x.userId = u /\ x.date = Ymd(ThisYear, 12, 31)

\* The account Rule 1 protects: not deleted, named "cash" in any case, of type
\* cash, and the earliest created of its user's accounts that are not deleted.
DefaultCash(a) ==
    /\ ~a.isDeleted
    /\ a.type = CASH
    /\ a.name \in {"Cash", "CASH", "cash"}
    /\ \A o \in accounts :
          (o.userId = a.userId /\ ~o.isDeleted) => a.createdAt <= o.createdAt

\* The transactions that reference an account and are not deleted.
LiveOn(accountId) == {t \in transactions : t.accountId = accountId /\ ~t.isDeleted}

\* C13: remove of an account that is its user's earliest account not deleted,
\* named "cash" in any case and of type cash answers the default-account
\* denial, and no remove step on it is possible: its flag stays false.
C13_DefaultAccountDenied ==
    \A a \in accounts :
        DefaultCash(a) =>
            /\ AccountsRemoveOutcome(a.id, a.userId).status = "Forbidden"
            /\ ~ENABLED AccountsRemove(a.id, a.userId)

\* A user whose earliest account is the cash account "CASH" and who has a
\* second account: remove of the first is denied.
C13_Witness ==
    \E a \in accounts, b \in accounts :
        /\ a.id # b.id /\ a.userId = b.userId /\ ~b.isDeleted
        /\ a.name = "CASH" /\ DefaultCash(a)
        /\ AccountsRemoveOutcome(a.id, a.userId).status = "Forbidden"

\* C14 as stated: remove of an account that N >= 1 transactions not deleted
\* reference is denied with the reason that reports N.
C14_DeniedWithCount ==
    \A a \in accounts :
        (~a.isDeleted /\ LiveOn(a.id) # {}) =>
            /\ AccountsRemoveOutcome(a.id, a.userId).status = "BadRequest"
            /\ AccountsRemoveOutcome(a.id, a.userId).count = Cardinality(LiveOn(a.id))

\* C14 amended: remove of an account that N >= 1 transactions not deleted
\* reference is denied, with the reason that reports N unless the account is
\* the protected default account (whose denial comes first); deleted
\* transactions are not counted and do not block the remove.
C14_DeniedWithCountUnlessDefault ==
    \A a \in accounts :
        ~a.isDeleted =>
            LET outcome == AccountsRemoveOutcome(a.id, a.userId)
            IN /\ LiveOn(a.id) # {} =>
                     /\ outcome.status \in {"Forbidden", "BadRequest"}
                     /\ ~ENABLED AccountsRemove(a.id, a.userId)
                     /\ ~DefaultCash(a) =>
                           /\ outcome.status = "BadRequest"
                           /\ outcome.count = Cardinality(LiveOn(a.id))
               /\ (LiveOn(a.id) = {} /\ ~DefaultCash(a)) =>
                     /\ outcome.status = "ok"
                     /\ ENABLED AccountsRemove(a.id, a.userId)

\* An account that is not the default one, with one transaction and one
\* deleted transaction: the denial reports one.
C14_Witness ==
    \E a \in accounts :
        /\ ~a.isDeleted /\ ~DefaultCash(a)
        /\ Cardinality(LiveOn(a.id)) = 1
        /\ \E t \in transactions : t.accountId = a.id /\ t.isDeleted
        /\ AccountsRemoveOutcome(a.id, a.userId) = [status |-> "BadRequest", count |-> 1]

\* The accounts of a user, deleted or not.
AccountsOf(userId) == {a \in accounts : a.userId = userId}

\* C15: while a user's only account is the seeded "Cash" account, remove of it
\* is denied with the default-account reason, without transactions on it and
\* with them (Rule 1 is looked at first).
C15_FreshDefaultAccount ==
    \A u \in users :
        \A a \in AccountsOf(u.id) :
            (AccountsOf(u.id) = {a} /\ a.name = "Cash" /\ a.type = CASH /\ ~a.isDeleted) =>
                /\ AccountsRemoveOutcome(a.id, u.id).status = "Forbidden"
                /\ ~ENABLED AccountsRemove(a.id, u.id)

\* A user whose only account is the seeded one, with a transaction on it, and a
\* user whose only account is the seeded one without any.
C15_Witness ==
    /\ \E u \in users : \E a \in AccountsOf(u.id) :
          /\ AccountsOf(u.id) = {a} /\ a.name = "Cash" /\ a.type = CASH
          /\ a.createdAt = u.createdAt
          /\ LiveOn(a.id) # {}
          /\ AccountsRemoveOutcome(a.id, u.id).status = "Forbidden"
    /\ \E u \in users : \E a \in AccountsOf(u.id) :
          /\ AccountsOf(u.id) = {a} /\ a.name = "Cash" /\ a.type = CASH
          /\ a.createdAt = u.createdAt
          /\ LiveOn(a.id) = {}
          /\ AccountsRemoveOutcome(a.id, u.id).status = "Forbidden"

\* C16: a remove that neither rule denies sets the account's flag; a step in
\* which an account becomes deleted is one where neither rule denied, keeps
\* the account's row with only the flag changed, and changes no other account,
\* no transaction and no other table; no step takes an account's row away.
C16_RemoveFrame ==
    [][/\ \A a \in accounts :
             (\E u \in users : AccountsRemove(a.id, u.id)) =>
                 [a EXCEPT !.isDeleted = TRUE] \in accounts'
       /\ \A a \in accounts :
             (~a.isDeleted /\ \E b \in accounts' : b.id = a.id /\ b.isDeleted) =>
                 /\ ~DefaultCash(a) /\ LiveOn(a.id) = {}
                 /\ accounts' = (accounts \ {a}) \cup {[a EXCEPT !.isDeleted = TRUE]}
                 /\ transactions' = transactions
                 /\ users' = users /\ categories' = categories /\ expenses' = expenses
       /\ \A a \in accounts : \E b \in accounts' : b.id = a.id
      ]_vars

\* A deleted account beside an account of the same user that is not deleted,
\* and a deleted transaction that referenced the deleted account.
C16_Witness ==
    \E a \in accounts, b \in accounts :
        /\ a.isDeleted /\ ~b.isDeleted /\ a.userId = b.userId
        /\ \E t \in transactions : t.accountId = a.id /\ t.isDeleted

\* The account a signup seeded: stamped in the request that stored its user.
Seeded(a) == \E u \in users : u.id = a.userId /\ u.createdAt = a.createdAt

\* C17 as stated: whatever its owner does with accounts and transactions, the
\* default account seeded at signup is never deleted.
C17_SeededAccountNeverDeleted ==
    \A a \in accounts : Seeded(a) => ~a.isDeleted

\* C18 as stated: no transaction that is not deleted references a deleted
\* account.
C18_NoLiveTransactionOnDeletedAccount ==
    \A t \in transactions, a \in accounts :
        (~t.isDeleted /\ t.accountId = a.id) => ~a.isDeleted

\* The categories of a user in a categories table.
CategoriesOf(cats, userId) == {c \in cats : c.userId = userId}

\* C20: a signup in which no seeding step fails stores one user, who then owns
\* exactly one account (named "Cash", of type cash, opening balance 0, opening
\* balance date today, not deleted) and exactly ten categories, with the names,
\* icons and colors of the default list.
C20_SignupSeeds ==
    [][\A dto \in CreateUserDtos :
          UsersCreate(dto, Now, FALSE, {}) =>
              /\ Cardinality(users' \ users) = 1
              /\ \A u \in users' \ users :
                    /\ Cardinality({a \in accounts' : a.userId = u.id}) = 1
                    /\ \A a \in accounts' :
                          a.userId = u.id =>
                              /\ a.name = "Cash" /\ a.type = CASH
                              /\ a.openingBalance = 0
                              /\ a.openingBalanceDate = Some(Today)
                              /\ ~a.isDeleted
                    /\ Cardinality(CategoriesOf(categories', u.id)) = 10
                    /\ {[name |-> c.name, icon |-> c.icon, color |-> c.color] :
                            c \in CategoriesOf(categories', u.id)}
                         = {[name |-> DefaultCategories[k].name,
                             icon |-> Some(DefaultCategories[k].icon),
                             color |-> DefaultCategories[k].color] : k \in 1..10}
      ]_vars

\* Two users signed up without a failure: each owns the seeded account and
\* ten categories, the first of them "Food & Dining".
C20_Witness ==
    /\ Cardinality(users) = 2
    /\ \A u \in users :
          /\ \E a \in accounts : a.userId = u.id /\ Seeded(a) /\ a.name = "Cash"
          /\ Cardinality(AccountsOf(u.id)) = 1
          /\ Cardinality(CategoriesOf(categories, u.id)) = 10
          /\ \E c \in CategoriesOf(categories, u.id) : c.name = "Food & Dining"

\* C19: every stored transaction has an amount above zero, and a create or an
\* update request whose body carries an amount of zero or less is rejected:
\* no step of it is possible, whatever the state of the ledger.
C19_PositiveAmounts ==
    /\ \A t \in transactions : t.amount > 0
    /\ \A u \in Users :
          \A dto \in PostTransactionBodies(u) :
              dto.amount <= 0 => ~ENABLED TransactionsPost(u, dto)
    /\ \A id \in TransactionIds, u \in Users, dto \in PatchTransactionBodies :
          (Has(dto, "amount") /\ dto.amount <= 0) => ~ENABLED TransactionsPatch(id, u, dto)

\* Two stored transactions of the least valid amount, a debit and a credit,
\* while an update of the first to a larger amount is accepted.
C19_Witness ==
    \E t \in transactions, o \in transactions :
        /\ t.id # o.id /\ ~t.isDeleted /\ ~o.isDeleted
        /\ t.amount = MinAmount /\ t.transactionType = DEBIT
        /\ o.amount = MinAmount /\ o.transactionType = CREDIT
        /\ ENABLED TransactionsPatch(t.id, t.userId, [amount |-> 20000])

\* The seeding failures of a signup: the account create rejects, or the create
\* of some category does.
SeedingFails(fails) == fails.account \/ fails.categories # {}

\* C21: when the create of the default account or of any default category
\* fails, UsersService.create still answers with the created user and without
\* an error, and the user's row is stored; the steps that did not fail are
\* stored too.
C21_SeedingFailureKeepsUser ==
    [][\A dto \in CreateUserDtos, fails \in SeedFailures :
          (SeedingFails(fails)
             /\ UsersCreate(dto, Now, fails.account, fails.categories)) =>
              LET answer == UsersCreateAnswer(dto, fails.account, fails.categories)
              IN /\ answer.status = "ok"
                 /\ answer.user.email = dto.email
                 /\ \E u \in users' \ users :
                       /\ u.id = answer.user.id /\ u.email = dto.email
                       /\ ~u.isDeleted
                 /\ Cardinality(CategoriesOf(categories', answer.user.id))
                       = Len(DefaultCategories) - Cardinality(fails.categories)
      ]_vars

\* A stored user without any account, and a stored user with fewer than the
\* ten default categories: signups in which a seeding step failed.
C21_Witness ==
    /\ \E u \in users : ~u.isDeleted /\ AccountsOf(u.id) = {}
    /\ \E u \in users :
          /\ ~u.isDeleted
          /\ Cardinality(CategoriesOf(categories, u.id)) < Len(DefaultCategories)

\* The live transactions of a user that name a category.
LiveIn(rows, userId, categoryId, type) ==
    {t \in rows : /\ t.userId = userId /\ ~t.isDeleted
                  /\ t.categoryId = categoryId /\ t.transactionType = type}

\* C22: a step that deletes a category deletes no transaction: each
\* transaction that named it is still stored, with its deleted flag as it was
\* and its category reference cleared, every other transaction is untouched;
\* every getBalance answer and both totals of every getStats report are as
\* before, and the transactions that named the category are counted in the
\* "Uncategorized" group of their type.
C22_CategoryDeleteKeepsTransactions ==
    [][\A c \in categories :
          (\E u \in Users : CategoriesRemove(c.id, u)) =>
              /\ c \notin categories'
              /\ Cardinality(transactions') = Cardinality(transactions)
              /\ \A t \in transactions :
                    IF t.categoryId = Some(c.id)
                    THEN [t EXCEPT !.categoryId = Null] \in transactions'
                    ELSE t \in transactions'
              /\ \A a \in accounts :
                    GetBalanceOn(accounts', transactions', a.id, a.userId)
                        = GetBalance(a.id, a.userId)
              /\ \A v \in Users, s \in StatsDates, e \in StatsDates :
                    LET before == GetStats(v, s, e)
                        after == GetStatsOn(transactions', categories', v, s, e)
                    IN /\ after.totalCredit = before.totalCredit
                       /\ after.totalDebit = before.totalDebit
              /\ \A v \in Users, ty \in {CREDIT, DEBIT} :
                    LET named == LiveIn(transactions, v, Some(c.id), ty)
                        none == LiveIn(transactions, v, Null, ty)
                        after == GetStatsOn(transactions', categories', v, JsNull, JsNull)
                    IN named # {} =>
                          /\ CategoryGroup(after, Some(c.id), ty) = {}
                          /\ \E g \in CategoryGroup(after, Null, ty) :
                                /\ g.categoryName = "Uncategorized"
                                /\ g.total = SumOf(named) + SumOf(none)
                                /\ g.count = Cardinality(named) + Cardinality(none)
      ]_vars

\* The category is gone while a live transaction that was posted in it is
\* stored without a category, beside a deleted one.
C22_Witness ==
    /\ categories = {}
    /\ \E t \in transactions, o \in transactions :
          /\ ~t.isDeleted /\ IsNull(t.categoryId)
          /\ o.isDeleted /\ IsNull(o.categoryId)
          /\ GetStats(t.userId, JsNull, JsNull).byCategory # {}

\* C23 as stated: the balance, totalCredit and totalDebit that getBalance
\* answers are the exact decimal results: each is the number that is written
\* as the exact sum in hundredths.
C23_ExactBalance ==
    \A a \in accounts :
        ~a.isDeleted =>
            LET answer == GetBalanceNumbers(a.id, a.userId).body
                exact == GetBalance(a.id, a.userId).body
            IN /\ answer.totalCredit = ParseFloat(exact.totalCredit)
               /\ answer.totalDebit = ParseFloat(exact.totalDebit)
               /\ answer.balance = ParseFloat(exact.balance)

\* A step taken by a service operation called with the identity of user v.
CalledBy(v) ==
    \/ AccountsCreate(v, SavingsAccountDto, Now)
    \/ \E id \in AccountIds, dto \in UpdateAccountDtos : AccountsUpdate(id, v, dto)
    \/ \E id \in AccountIds : AccountsRemove(id, v)
    \/ \E dto \in CreateTransactionDtos : TransactionsCreate(v, dto)
    \/ \E id \in TransactionIds, dto \in UpdateTransactionDtos :
          TransactionsUpdate(id, v, dto)
    \/ \E id \in TransactionIds : TransactionsRemove(id, v)

\* C24 as stated: a step taken with the identity of a user v changes, for
\* every other user u, no answer of getBalance, not the answers of
\* getAllAccountBalances, and not whether a remove of an account by u is
\* allowed.
C24_CrossUserNoninterference ==
    [][\A u \in Users, v \in Users :
          (u # v /\ CalledBy(v)) =>
              /\ \A a \in AccountIds :
                    GetBalanceOn(accounts', transactions', a, u) = GetBalance(a, u)
              /\ GetAllAccountBalances(u)' = GetAllAccountBalances(u)
              /\ \A a \in AccountIds :
                    AccountsRemoveOutcome(a, u)'.status = AccountsRemoveOutcome(a, u).status
      ]_vars

\* The answer of the getBalance that has run to its end.
BalanceAnswer == Val(calls.balance.answer)

\* C25 as stated: the totalCredit, totalDebit and balance a getBalance answers
\* are the sums and the balance of one single ledger state that existed during
\* the call.
C25_SingleLedgerState ==
    calls.balance.pc = "done" =>
        \E s \in calls.balance.seen :
            /\ BalanceAnswer.totalCredit = s.totalCredit
            /\ BalanceAnswer.totalDebit = s.totalDebit
            /\ BalanceAnswer.balance
                  = Val(calls.balance.account).openingBalance
                       + s.totalCredit - s.totalDebit

\* C25, amended: totalCredit is the credit sum of the ledger as stored when the
\* credit-sum query runs, totalDebit the debit sum of the ledger as stored when
\* the debit-sum query runs, and balance = openingBalance + totalCredit -
\* totalDebit; each of the two ledgers existed during the call, and when their
\* sums are the same the answer is that of one single ledger state.
C25_EachSumFromItsQuery ==
    [][/\ GetBalanceCredit =>
             LET account == Val(calls.balance.account)
             IN /\ calls'.balance.totalCredit = SumOf(Counted(account, CREDIT))
                /\ [totalCredit |-> SumOf(Counted(account, CREDIT)),
                    totalDebit |-> SumOf(Counted(account, DEBIT))]
                      \in calls.balance.seen
       /\ GetBalanceDebit =>
             LET account == Val(calls.balance.account)
                 answer == Val(calls'.balance.answer)
                 now == [totalCredit |-> SumOf(Counted(account, CREDIT)),
                         totalDebit |-> SumOf(Counted(account, DEBIT))]
             IN /\ answer.totalCredit = calls.balance.totalCredit
                /\ answer.totalDebit = now.totalDebit
                /\ answer.balance
                      = account.openingBalance + answer.totalCredit - answer.totalDebit
                /\ now \in calls.balance.seen
                /\ Val(calls.balance.atCredit) = now =>
                      /\ answer.totalCredit = now.totalCredit
                      /\ answer.totalDebit = now.totalDebit
      ]_vars

\* A getBalance has answered with a credit sum and a debit sum that no single
\* ledger of the call holds: a mutation landed between its two queries.
C25_Witness ==
    /\ calls.balance.pc = "done"
    /\ calls.balance.atCredit # calls.balance.atDebit
    /\ BalanceAnswer.totalCredit = Val(calls.balance.atCredit).totalCredit
    /\ BalanceAnswer.totalDebit = Val(calls.balance.atDebit).totalDebit
    /\ \A s \in calls.balance.seen :
          s.totalCredit # BalanceAnswer.totalCredit
             \/ s.totalDebit # BalanceAnswer.totalDebit

\* C26 as stated: when the save of a remove that passed its checks writes the
\* account's flag, no transaction that is not deleted references the account,
\* whatever ran between the count and the save.
C26_NoLiveTransactionAtSave ==
    [][AccountsRemoveSave => LiveOn(Val(calls.remove.account).id) = {}]_vars

\* The groups of a type among the groups of a report.
GroupsOfType(groups, type) == {g \in groups : g.transactionType = type}

\* C27 as stated: for every combination of a present or absent startDate and
\* endDate, totalCredit is the sum of the credit groups of byCategory and the
\* sum of the credit groups of byPaymentMethod, and totalDebit is the same for
\* the debit groups.
C27_TotalsMatchGroups ==
    \A u \in Users, s \in StatsDates, e \in StatsDates :
        LET report == GetStats(u, s, e)
        IN /\ report.totalCredit = SumTotals(GroupsOfType(report.byCategory, CREDIT))
           /\ report.totalCredit = SumTotals(GroupsOfType(report.byPaymentMethod, CREDIT))
           /\ report.totalDebit = SumTotals(GroupsOfType(report.byCategory, DEBIT))
           /\ report.totalDebit = SumTotals(GroupsOfType(report.byPaymentMethod, DEBIT))

StepsLeft(request) ==
    IF request.pc \notin {"sent", "refreshing"} THEN 0
    ELSE 1 + (IF request.retry THEN 0 ELSE 2) + (IF request.pc = "refreshing" THEN 1 ELSE 0)

\* C29: the response interceptor refreshes and re-sends a request at most
\* once: an answer to a request that carries the _retry mark ends the request
\* without a refresh and without another send, whatever the status; every step
\* of the handling brings the request nearer to its end, so the handling of a
\* request ends even if every answer is a 401; and a request that is rejected
\* because the refresh call failed leaves accessToken, refreshToken and user
\* removed from storage.
C29_RetryAtMostOnce ==
    /\ [][/\ client'.request.sends <= 2
          /\ client'.request.refreshes <= 1
          /\ (client.request.pc = "sent" /\ client.request.retry /\ client' # client)
                 => /\ client'.request.pc \in {"resolved", "rejected"}
                    /\ client'.request.sends = client.request.sends
                    /\ client'.request.refreshes = client.request.refreshes
          /\ (InFlight(client) /\ client' # client)
                 => StepsLeft(client'.request) < StepsLeft(client.request)
          /\ (client.request.pc = "refreshing" /\ client'.request.pc = "rejected")
                 => /\ client'.storage = Cleared
                    /\ Val(client'.request.error).call = "refresh"]_vars
    /\ (InFlight(client) ~> ~InFlight(client))

\* The server answered 401 to the request and to the request sent again after
\* the refresh: the request is rejected with the second 401.
C29_Witness ==
    /\ client.request.pc = "rejected"
    /\ client.request.kind = "data"
    /\ client.request.retry
    /\ client.request.sends = 2
    /\ client.request.refreshes = 1
    /\ client.request.error = Some(ErrorOf("request", 401))

\* C30: POST /auth/logout answers a refresh token that verifies with the
\* message "Logged out successfully", a refresh token whose subject is not the
\* requesting user with Forbidden ("Token does not belong to this user"), and
\* a token that does not verify with Unauthorized.
C30_LogoutAnswers ==
    calls.logout.pc = "answered" =>
        LET request == Val(calls.logout.request)
            answer == Val(calls.logout.response)
            token == request.body.refreshToken
            verifies == ~request.expired /\ token.secret = "refreshSecret"
        IN IF ~verifies THEN answer.status = 401
           ELSE IF ~IsNull(request.user) /\ Val(request.user) # token.sub
           THEN answer = HttpAnswer(403, "Token does not belong to this user")
           ELSE answer = HttpAnswer(201, "Logged out successfully")

====
